---- MODULE Spec2Model ----
(***************************************************************************)
(* Inference control plane of MLForge: the model catalog with its          *)
(* commitment state machine (app/api/models.py), the synchronous predict   *)
(* path (app/api/predictions.py) and the asynchronous job path             *)
(* (app/api/jobs.py, app/tasks/inference.py).                              *)
(*                                                                         *)
(* Every HTTP handler runs in one database transaction that get_db commits *)
(* when the handler returns and rolls back when it raises, so a handler is *)
(* one action on the committed rows unless its transaction is observable   *)
(* from outside while open; those handlers are split at that point.        *)
(***************************************************************************)
EXTENDS Integers, Sequences, FiniteSets, TLC

\* ------------------------------------------------------------------ bounds
MaxModels == 2
MaxInflight == 2
MaxJobs == 1
MaxLost == 1
MaxTime == 1

\* --------------------------------------------------------------- constants
max_model_size_mb == 500
job_max_retries == 3
job_retention_days == 30
max_model_size_bytes == max_model_size_mb * 1024 * 1024

ModelIds == 1..MaxModels
Slots == 1..MaxInflight
JobIds == 1..MaxJobs
Names == {"m"}
Versions == {"1.0.0", "2.0.0"}

\* A NULL column / Python None.  Nullable columns hold NULL or a tuple.
NULL == <<>>

\* ModelStatus
PENDING == "pending"
UPLOADED == "uploaded"
VALIDATING == "validating"
READY == "ready"
ERROR == "error"
ARCHIVED == "archived"
ModelStatus == {PENDING, UPLOADED, VALIDATING, READY, ERROR, ARCHIVED}

\* Uploaded byte streams: a loadable ONNX graph, bytes that are not ONNX,
\* and a stream larger than the size cap.
Contents == {"good", "bad", "huge"}

\* Upload file names, as token sequences ("model" "." "ONNX").
Filenames == {<<"model", ".", "onnx">>, <<"model", ".", "ONNX">>,
              <<"model", ".", "txt">>, <<"model">>, <<>>}

VARIABLES
    models,      \* committed ml_models rows: [id -> row], DOMAIN = existing ids
    validating,  \* ids whose validate transaction is open (VALIDATING flushed)
    blobs,       \* artifact store: [storage filename -> content]
    creating,    \* create requests past the duplicate check: [slot -> pair]
    predictions, \* committed predictions rows (a set: rows are append-only)
    predCache,   \* result cache: [<<model id, input>> -> cached value]
    sessions,    \* session cache of the API process: set of resolved paths
    jobs,        \* committed jobs rows: [id -> row]
    jobTx,       \* jobs rows inserted by a create_job not yet committed
    broker,      \* task messages waiting in the "inference" queue
    revoked,     \* task ids the worker has been told to revoke
    worker,      \* the worker process: position in the task and its message
    engineRuns,  \* per job: engine runs that ran to completion (history)
    outputWrites,\* per job: writes of output_data (history)
    lost,        \* number of worker losses so far
    issued,      \* model ids (uuid4) handed out so far
    issuedJobs,  \* job ids (uuid4) handed out so far
    now,         \* the clock (datetime.now), in days
    resp,        \* the last HTTP response sent
    waiter,      \* a get_job_result request inside its polling loop
    redis,       \* the result-cache store: "up", "down" or "disabled"
    cancelling,  \* jobs a cancel request has checked and not yet written
    reaper,      \* a cleanup run between its count and its delete
    modelCache,  \* model cache: [model id -> the row as cached]
    modelTx,     \* model updates flushed by a PATCH not yet committed
    uploading    \* uploads past storage.save: [slot -> model and content]

catalogVars == <<models, validating, blobs, creating>>
serveVars == <<predictions, predCache, sessions>>
jobVars == <<jobs, jobTx, broker, revoked, worker, engineRuns, outputWrites, lost>>
idVars == <<issued, issuedJobs, now>>
raceVars == <<cancelling, reaper, modelTx, uploading>>
vars == <<models, validating, blobs, creating, predictions, predCache,
          sessions, jobs, jobTx, broker, revoked, worker, engineRuns,
          outputWrites, lost, issued, issuedJobs, now, resp, waiter, redis,
          cancelling, reaper, modelCache, modelTx, uploading>>

\* ---------------------------------------------------------------- helpers
Response(op, id, code, engine, msg) ==
    [op |-> op, id |-> id, code |-> code, engine |-> engine, msg |-> msg]

Size(content) == IF content = "huge" THEN max_model_size_bytes + 1 ELSE 1024

Sha256(content) == <<"sha256", content>>

storage_filename(m) == <<m, ".onnx">>

Lower(tok) == IF tok = "ONNX" THEN "onnx" ELSE tok

LastDot(f) ==
    LET dots == {i \in 1..Len(f) : f[i] = "."}
    IN  IF dots = {} THEN 0 ELSE CHOOSE i \in dots : \A k \in dots : k <= i

\* file_ext of upload_model_file: "." + rsplit(".", 1)[-1].lower(), or ""
file_ext(f) ==
    IF LastDot(f) = 0 THEN <<>>
    ELSE <<".">> \o [i \in 1..(Len(f) - LastDot(f)) |-> Lower(f[LastDot(f) + i])]

allowed_extensions == {<<".", "onnx">>}

RemoveKey(fn, k) == [x \in DOMAIN fn \ {k} |-> fn[x]]

\* ONNXService.validate on the file's bytes
ValidationResult(content) ==
    IF content = "good"
    THEN [valid |-> TRUE, input_schema |-> <<"input">>,
          output_schema |-> <<"output">>, metadata |-> <<"onnx">>,
          error_message |-> NULL]
    ELSE [valid |-> FALSE, input_schema |-> NULL, output_schema |-> NULL,
          metadata |-> NULL, error_message |-> <<"Failed to load model">>]

\* the table without its unique constraint
uq_missing(m, name, version) == TRUE

\* UniqueConstraint("name", "version") checked when row m is flushed
uq_model_name_version(m, name, version) ==
    \A o \in DOMAIN models \ {m} :
        ~(models[o].name = name /\ models[o].version = version)

\* a slip that would let an uploaded, unvalidated model through
is_committed_uploaded_too(row) == row.status \in {READY, UPLOADED}

\* MLModel.is_committed
is_committed(row) == row.status = READY

\* a slip that tells "already uploaded" from the status alone
has_file_by_status(row) == row.status = UPLOADED

\* upload_model_file: "if model.file_path"
has_file(row) == row.file_path # NULL

\* a slip that only keeps models being validated from a second validate
can_validate_unless_validating(row) == row.status # VALIDATING

\* validate_model: "model.status in (UPLOADED, ERROR)"
can_validate(row) == row.status \in {UPLOADED, ERROR}

\* a task message: the task id given by delay(), the job, request.retries
Msg(task_id, job_id, retries) ==
    [task_id |-> task_id, job_id |-> job_id, retries |-> retries]

NoMsg == Msg(NULL, 0, 0)

\* get_job_result in (pc "polling") or after (pc "idle") its polling loop,
\* with its local variables: the job, the wait asked for and the time slept
\* so far, in tenths of a second
Waiter(pc, job_id, wait, elapsed) ==
    [pc |-> pc, job_id |-> job_id, wait |-> wait, elapsed |-> elapsed]

NoWaiter == Waiter("idle", 0, 0, 0)

\* cleanup_old_jobs after (pc "counted") its count query, with its locals
Reaper(pc, count, cutoff_date) ==
    [pc |-> pc, count |-> count, cutoff_date |-> cutoff_date]

NoReaper == Reaper("idle", 0, 0)

\* the state after start-up, the result cache being r
InitWith(r) ==
    /\ models = <<>>
    /\ validating = {}
    /\ blobs = <<>>
    /\ creating = [s \in Slots |-> NULL]
    /\ predictions = {}
    /\ predCache = <<>>
    /\ sessions = {}
    /\ jobs = <<>>
    /\ jobTx = <<>>
    /\ broker = {}
    /\ revoked = {}
    /\ worker = [pc |-> "idle", msg |-> NoMsg]
    /\ engineRuns = <<>>
    /\ outputWrites = <<>>
    /\ lost = 0
    /\ issued = {}
    /\ issuedJobs = {}
    /\ now = 0
    /\ resp = Response("none", 0, 0, FALSE, NULL)
    /\ waiter = NoWaiter
    /\ redis = r
    /\ cancelling = {}
    /\ reaper = NoReaper
    /\ modelCache = <<>>
    /\ modelTx = <<>>
    /\ uploading = [s \in Slots |-> NULL]

Init == InitWith("up")

\* ------------------------------------------------------ POST /models
\* create_model up to the duplicate check (get_by_name_and_version)
create_model_check(s, name, version, metadata) ==
    /\ creating[s] = NULL
    /\ IF \E o \in DOMAIN models :
              models[o].name = name /\ models[o].version = version
       THEN /\ resp' = Response("create_model", 0, 409, FALSE, NULL)
            /\ UNCHANGED creating
       ELSE /\ creating' = [creating EXCEPT ![s] = <<name, version, metadata>>]
            /\ UNCHANGED resp
    /\ UNCHANGED <<waiter, redis, raceVars, modelCache, models, validating, blobs, serveVars, jobVars, idVars>>

\* create_model from model_crud.create on: INSERT, flush, commit
create_model_insert(s, m) ==
    /\ creating[s] # NULL
    /\ m \notin issued
    /\ issued' = issued \cup {m}
    /\ LET name == creating[s][1]
           version == creating[s][2]
           row == [name |-> name, version |-> version, status |-> PENDING,
                   file_path |-> NULL, file_size_bytes |-> NULL,
                   file_hash |-> NULL, input_schema |-> NULL,
                   output_schema |-> NULL,
                   model_metadata |-> creating[s][3]]
       IN  IF uq_model_name_version(m, name, version)
           THEN /\ models' = models @@ (m :> row)
                /\ resp' = Response("create_model", m, 201, FALSE, NULL)
           ELSE \* IntegrityError: get_db rolls back, 500
                /\ resp' = Response("create_model", 0, 500, FALSE, NULL)
                /\ UNCHANGED models
    /\ creating' = [creating EXCEPT ![s] = NULL]
    /\ UNCHANGED <<waiter, redis, raceVars, modelCache, validating, blobs, serveVars, jobVars, issuedJobs, now>>

\* ------------------------------------------------- PATCH /models/{id}
\* CRUDBase.update: setattr for every field of the update dict
update(row, update_data) ==
    [f \in DOMAIN row |->
        IF f \in DOMAIN update_data THEN update_data[f] ELSE row[f]]

\* a cache client that takes the store for reachable whatever its state
is_connected_always == TRUE

\* CacheService: the store is enabled, connected and answers (else every
\* operation returns None, False or 0, a RedisError being caught and logged);
\* "disabled" also stands for PredictionCache.enabled = False
is_connected == redis = "up"

\* an invalidation that clears the keys of every model but m
invalidate_other_models(m) ==
    IF is_connected
    THEN [k \in {k \in DOMAIN predCache : k[1] = m} |-> predCache[k]]
    ELSE predCache

\* PredictionCache.invalidate_model_predictions (CacheService.clear_prefix)
invalidate_model_predictions(m) ==
    IF is_connected
    THEN [k \in {k \in DOMAIN predCache : k[1] # m} |-> predCache[k]]
    ELSE predCache

\* update_model; model_in is ModelUpdate.model_dump(exclude_unset=True)
\* ModelCache.invalidate_model (CacheService.delete of the model's key)
invalidate_model(m) ==
    IF is_connected THEN RemoveKey(modelCache, m) ELSE modelCache

update_model(m, model_in) ==
    /\ m \notin validating
    /\ m \notin DOMAIN modelTx
    /\ IF m \notin DOMAIN models
       THEN /\ resp' = Response("update_model", m, 404, FALSE, NULL)
            /\ UNCHANGED <<models, modelCache>>
       ELSE LET updated == update(models[m], model_in)
            IN  IF uq_model_name_version(m, updated.name, updated.version)
                THEN /\ models' = [models EXCEPT ![m] = updated]
                     /\ modelCache' = invalidate_model(m)
                     /\ resp' = Response("update_model", m, 200, FALSE, NULL)
                ELSE /\ resp' = Response("update_model", m, 500, FALSE, NULL)
                     /\ UNCHANGED <<models, modelCache>>
    /\ UNCHANGED <<waiter, redis, raceVars, validating, blobs, creating, serveVars, jobVars, idVars>>

\* model_to_cache_dict: the columns of row m that are cached, and that
\* ModelResponse is built from
model_to_cache_dict(m, row) ==
    [id |-> m, name |-> row.name, version |-> row.version,
     status |-> row.status, file_path |-> row.file_path,
     file_size_bytes |-> row.file_size_bytes, file_hash |-> row.file_hash,
     input_schema |-> row.input_schema, output_schema |-> row.output_schema,
     model_metadata |-> row.model_metadata]

\* ModelCache.set_model: the cache after the call
set_model(m, model_data) ==
    IF is_connected
    THEN [k \in DOMAIN modelCache \cup {m} |->
            IF k = m THEN model_data ELSE modelCache[k]]
    ELSE modelCache

\* GET /models/{id}: the cached dict if there is one, else the committed
\* row, which is cached
get_model(m) ==
    /\ IF is_connected /\ m \in DOMAIN modelCache
       THEN /\ resp' = Response("get_model", m, 200, FALSE, modelCache[m])
            /\ UNCHANGED modelCache
       ELSE IF m \notin DOMAIN models
       THEN /\ resp' = Response("get_model", m, 404, FALSE, NULL)
            /\ UNCHANGED modelCache
       ELSE /\ modelCache' = set_model(m, model_to_cache_dict(m, models[m]))
            /\ resp' = Response("get_model", m, 200, FALSE,
                                model_to_cache_dict(m, models[m]))
    /\ UNCHANGED <<waiter, redis, raceVars, catalogVars, serveVars, jobVars, idVars>>

\* update_model as the two steps other requests can fall between: the
\* handler, which flushes the UPDATE (the row is locked, other transactions
\* still read the committed row) and invalidates the cache ...
update_model_flush(m, model_in) ==
    /\ m \notin validating
    /\ m \notin DOMAIN modelTx
    /\ IF m \notin DOMAIN models
       THEN /\ resp' = Response("update_model", m, 404, FALSE, NULL)
            /\ UNCHANGED <<modelTx, modelCache>>
       ELSE LET updated == update(models[m], model_in)
            IN  IF uq_model_name_version(m, updated.name, updated.version)
                THEN /\ modelTx' = modelTx @@ (m :> updated)
                     /\ modelCache' = invalidate_model(m)
                     /\ UNCHANGED resp
                ELSE /\ resp' = Response("update_model", m, 500, FALSE, NULL)
                     /\ UNCHANGED <<modelTx, modelCache>>
    /\ UNCHANGED <<waiter, redis, cancelling, reaper, uploading, catalogVars,
                   serveVars, jobVars, idVars>>

\* ... and get_db's commit after the handler has returned
update_model_commit(m) ==
    /\ m \in DOMAIN modelTx
    /\ modelTx' = RemoveKey(modelTx, m)
    /\ models' = [models EXCEPT ![m] = modelTx[m]]
    /\ resp' = Response("update_model", m, 200, FALSE, NULL)
    /\ UNCHANGED <<waiter, redis, cancelling, reaper, uploading, modelCache,
                   validating, blobs, creating, serveVars, jobVars, idVars>>

\* ------------------------------------------------ DELETE /models/{id}
\* delete_model: the row, its predictions and jobs (cascade), cached results
delete_model(m) ==
    /\ m \notin validating
    \* an uncommitted jobs row holds a key-share lock on the model it references
    /\ \A j \in DOMAIN jobTx : jobTx[j].model_id # m
    /\ m \notin DOMAIN modelTx
    /\ IF m \notin DOMAIN models
       THEN /\ resp' = Response("delete_model", m, 404, FALSE, NULL)
            /\ UNCHANGED <<models, predictions, predCache, jobs, engineRuns,
                           outputWrites, modelCache>>
       ELSE /\ models' = RemoveKey(models, m)
            /\ modelCache' = invalidate_model(m)
            /\ predictions' = {p \in predictions : p.model_id # m}
            /\ LET kept == {j \in DOMAIN jobs : jobs[j].model_id # m}
               IN  /\ jobs' = [j \in kept |-> jobs[j]]
                   /\ engineRuns' = [j \in kept |-> engineRuns[j]]
                   /\ outputWrites' = [j \in kept |-> outputWrites[j]]
            /\ predCache' = invalidate_model_predictions(m)
            /\ resp' = Response("delete_model", m, 204, FALSE, NULL)
    /\ UNCHANGED <<waiter, redis, raceVars, validating, blobs, creating, sessions, jobTx, broker,
                   revoked, worker, lost, idVars>>

\* --------------------------------------------- POST /models/{id}/upload
\* upload_model_file.  db is how the row update fares: "ok", "flush" (the
\* UPDATE raises inside the handler) or "commit" (get_db's commit raises
\* after the handler returned).
upload_model_file(m, filename, content, db) ==
    /\ m \notin validating
    /\ LET path == storage_filename(m)
       IN
       IF m \notin DOMAIN models
       THEN /\ resp' = Response("upload", m, 404, FALSE, NULL)
            /\ UNCHANGED <<models, blobs, predCache, modelCache>>
       ELSE IF filename = <<>> \/ file_ext(filename) \notin allowed_extensions
       THEN /\ resp' = Response("upload", m, 400, FALSE, NULL)
            /\ UNCHANGED <<models, blobs, predCache, modelCache>>
       ELSE IF has_file(models[m])
       THEN /\ resp' = Response("upload", m, 409, FALSE, NULL)
            /\ UNCHANGED <<models, blobs, predCache, modelCache>>
       ELSE IF Size(content) > max_model_size_bytes
       THEN \* StorageFullError is raised before anything is written
            /\ resp' = Response("upload", m, 413, FALSE, NULL)
            /\ UNCHANGED <<models, blobs, predCache, modelCache>>
       ELSE IF db = "flush"
       THEN \* storage.save wrote the blob, the handler deletes it again
            /\ blobs' = RemoveKey(blobs, path)
            /\ resp' = Response("upload", m, 500, FALSE, NULL)
            /\ UNCHANGED <<models, predCache, modelCache>>
       ELSE IF db = "commit"
       THEN \* the handler finished (caches invalidated), the row is rolled back
            /\ blobs' = [x \in DOMAIN blobs \cup {path} |->
                            IF x = path THEN content ELSE blobs[x]]
            /\ modelCache' = invalidate_model(m)
            /\ predCache' = invalidate_model_predictions(m)
            /\ resp' = Response("upload", m, 500, FALSE, NULL)
            /\ UNCHANGED models
       ELSE /\ blobs' = [x \in DOMAIN blobs \cup {path} |->
                            IF x = path THEN content ELSE blobs[x]]
            /\ models' = [models EXCEPT ![m] = update(models[m],
                    [file_path |-> path, file_size_bytes |-> <<Size(content)>>,
                     file_hash |-> Sha256(content), status |-> UPLOADED])]
            /\ modelCache' = invalidate_model(m)
            /\ predCache' = invalidate_model_predictions(m)
            /\ resp' = Response("upload", m, 200, FALSE, NULL)
    /\ UNCHANGED <<waiter, redis, raceVars, validating, creating, predictions, sessions, jobVars, idVars>>

\* ------------------------------------------- POST /models/{id}/validate
\* validate_model up to update_status(VALIDATING): the precondition checks,
\* then the UPDATE that is flushed (and locks the row) but not committed
\* upload_model_file as the two steps other uploads can fall between: the
\* request up to storage.save, which checks the row as committed so far
\* and writes the blob under the model's storage filename ...
upload_save(s, m, filename, content) ==
    /\ uploading[s] = NULL
    /\ m \notin validating
    /\ IF m \notin DOMAIN models
       THEN /\ resp' = Response("upload", m, 404, FALSE, NULL)
            /\ UNCHANGED <<blobs, uploading>>
       ELSE IF filename = <<>> \/ file_ext(filename) \notin allowed_extensions
       THEN /\ resp' = Response("upload", m, 400, FALSE, NULL)
            /\ UNCHANGED <<blobs, uploading>>
       ELSE IF has_file(models[m])
       THEN /\ resp' = Response("upload", m, 409, FALSE, NULL)
            /\ UNCHANGED <<blobs, uploading>>
       ELSE IF Size(content) > max_model_size_bytes
       THEN /\ resp' = Response("upload", m, 413, FALSE, NULL)
            /\ UNCHANGED <<blobs, uploading>>
       ELSE /\ blobs' = [x \in DOMAIN blobs \cup {storage_filename(m)} |->
                            IF x = storage_filename(m) THEN content ELSE blobs[x]]
            /\ uploading' = [uploading EXCEPT ![s] =
                    [model_id |-> m, file_path |-> storage_filename(m),
                     file_size_bytes |-> <<Size(content)>>,
                     file_hash |-> Sha256(content)]]
            /\ UNCHANGED resp
    /\ UNCHANGED <<waiter, redis, cancelling, reaper, modelTx, modelCache,
                   models, validating, creating, serveVars, jobVars, idVars>>

\* ... and the UPDATE of the row with what save returned, the cache
\* invalidation and get_db's commit (the UPDATE of a row deleted in between
\* raises, and the handler deletes the blob)
upload_commit(s) ==
    /\ uploading[s] # NULL
    /\ uploading' = [uploading EXCEPT ![s] = NULL]
    /\ LET m == uploading[s].model_id
       IN  IF m \notin DOMAIN models
           THEN /\ blobs' = RemoveKey(blobs, uploading[s].file_path)
                /\ resp' = Response("upload", m, 500, FALSE, NULL)
                /\ UNCHANGED <<models, modelCache, predCache>>
           ELSE /\ models' = [models EXCEPT ![m] = update(models[m],
                        [file_path |-> uploading[s].file_path,
                         file_size_bytes |-> uploading[s].file_size_bytes,
                         file_hash |-> uploading[s].file_hash,
                         status |-> UPLOADED])]
                /\ modelCache' = invalidate_model(m)
                /\ predCache' = invalidate_model_predictions(m)
                /\ resp' = Response("upload", m, 200, FALSE, NULL)
                /\ UNCHANGED blobs
    /\ UNCHANGED <<waiter, redis, cancelling, reaper, modelTx, validating,
                   creating, predictions, sessions, jobVars, idVars>>

validate_model_begin(m) ==
    /\ m \notin validating
    /\ IF m \notin DOMAIN models
       THEN /\ resp' = Response("validate", m, 404, FALSE, NULL)
            /\ UNCHANGED validating
       ELSE IF models[m].file_path = NULL
       THEN /\ resp' = Response("validate", m, 400, FALSE, NULL)
            /\ UNCHANGED validating
       ELSE IF ~can_validate(models[m])
       THEN /\ resp' = Response("validate", m, 409, FALSE, NULL)
            /\ UNCHANGED validating
       ELSE /\ validating' = validating \cup {m}
            /\ UNCHANGED resp
    /\ UNCHANGED <<waiter, redis, raceVars, modelCache, models, blobs, creating, serveVars, jobVars, idVars>>

\* validate_model from storage.get_path on, and get_db's commit or rollback
validate_model_finish(m) ==
    /\ m \in validating
    /\ validating' = validating \ {m}
    /\ IF models[m].file_path \notin DOMAIN blobs
       THEN \* get_path raises: status ERROR is flushed, then HTTPException
            \* makes get_db roll the whole transaction back
            /\ resp' = Response("validate", m, 500, FALSE, NULL)
            /\ UNCHANGED <<models, predCache, modelCache>>
       ELSE LET result == ValidationResult(blobs[models[m].file_path])
            IN  IF result.valid
                THEN /\ models' = [models EXCEPT ![m] = update(models[m],
                            [status |-> READY,
                             input_schema |-> result.input_schema,
                             output_schema |-> result.output_schema,
                             model_metadata |-> result.metadata])]
                     /\ modelCache' = invalidate_model(m)
                     /\ predCache' = invalidate_model_predictions(m)
                     /\ resp' = Response("validate", m, 200, FALSE, NULL)
                ELSE /\ models' = [models EXCEPT ![m] = update(models[m],
                            [status |-> ERROR])]
                     /\ modelCache' = invalidate_model(m)
                     /\ predCache' = invalidate_model_predictions(m)
                     /\ resp' = Response("validate", m, 200, FALSE,
                                         result.error_message)
    /\ UNCHANGED <<waiter, redis, raceVars, blobs, creating, predictions, sessions, jobVars, idVars>>

\* ------------------------------------------------- version ordering
\* Version strings as sequences of characters.
VersionStrings ==
    {<<"1", ".", "0", ".", "0">>,
     <<"2", ".", "0", ".", "0">>,
     <<"1", ".", "1", "0", ".", "0">>,
     <<"1", ".", "9", ".", "0">>,
     <<"1", ".", "0", ".", "0", "-", "b", "e", "t", "a">>,
     <<"0", ".", "0", ".", "0">>,
     <<"1", ".", "0">>,
     <<"l", "a", "t", "e", "s", "t">>}

\* the code points of the characters used (Python compares str by them)
ord ==
    ("-" :> 45) @@ ("." :> 46) @@ ("0" :> 48) @@ ("1" :> 49) @@ ("2" :> 50)
    @@ ("9" :> 57) @@ ("a" :> 97) @@ ("b" :> 98) @@ ("e" :> 101)
    @@ ("l" :> 108) @@ ("s" :> 115) @@ ("t" :> 116)

\* \d
isdigit(c) == ord["0"] <= ord[c] /\ ord[c] <= ord["9"]

\* the length of the run of digits that \d+ takes at position i
RECURSIVE digits_at(_, _)
digits_at(v, i) ==
    IF i <= Len(v) /\ isdigit(v[i]) THEN 1 + digits_at(v, i + 1) ELSE 0

\* int() of a string of digits
RECURSIVE int(_)
int(d) ==
    IF d = <<>> THEN 0
    ELSE 10 * int(SubSeq(d, 1, Len(d) - 1)) + (ord[d[Len(d)]] - ord["0"])

\* re.match(r"^(\d+)\.(\d+)\.(\d+)(?:-(.+))?$", version): the four groups,
\* or NULL when the string does not match
semver_match(v) ==
    LET n1 == digits_at(v, 1)
        p2 == n1 + 2
        n2 == digits_at(v, p2)
        p3 == p2 + n2 + 1
        n3 == digits_at(v, p3)
        rest == p3 + n3
    IN  IF /\ n1 > 0 /\ n1 + 1 <= Len(v) /\ v[n1 + 1] = "."
           /\ n2 > 0 /\ p2 + n2 <= Len(v) /\ v[p2 + n2] = "."
           /\ n3 > 0
           /\ \/ rest = Len(v) + 1
              \/ rest + 1 <= Len(v) /\ v[rest] = "-"
        THEN <<SubSeq(v, 1, n1), SubSeq(v, p2, p2 + n2 - 1),
               SubSeq(v, p3, p3 + n3 - 1), SubSeq(v, rest + 1, Len(v))>>
        ELSE NULL

\* parse_semver: (major, minor, patch, prerelease)
parse_semver(v) ==
    LET match == semver_match(v)
    IN  IF match # NULL
        THEN <<int(match[1]), int(match[2]), int(match[3]), match[4]>>
        ELSE <<0, 0, 0, v>>

\* str < str
RECURSIVE str_lt(_, _)
str_lt(a, b) ==
    IF a = <<>> THEN b # <<>>
    ELSE IF b = <<>> THEN FALSE
    ELSE IF a[1] = b[1] THEN str_lt(Tail(a), Tail(b))
    ELSE ord[a[1]] < ord[b[1]]

\* tuple < tuple of the keys parse_semver returns, as list.sort and max
\* compare them
key_lt(k1, k2) ==
    \/ k1[1] < k2[1]
    \/ k1[1] = k2[1] /\ k1[2] < k2[2]
    \/ k1[1] = k2[1] /\ k1[2] = k2[2] /\ k1[3] < k2[3]
    \/ k1[1] = k2[1] /\ k1[2] = k2[2] /\ k1[3] = k2[3] /\ str_lt(k1[4], k2[4])

\* compare_versions
compare_versions(v1, v2) ==
    LET parsed1 == parse_semver(v1)
        parsed2 == parse_semver(v2)
        differ == {i \in 1..3 : parsed1[i] # parsed2[i]}
        first == CHOOSE i \in differ : \A k \in differ : i <= k
        pre1 == parsed1[4]
        pre2 == parsed2[4]
    IN  IF differ # {}
        THEN IF parsed1[first] < parsed2[first] THEN -1 ELSE 1
        ELSE IF pre1 = pre2 THEN 0
        ELSE IF pre1 = <<>> THEN 1
        ELSE IF pre2 = <<>> THEN -1
        ELSE IF str_lt(pre1, pre2) THEN -1
        ELSE 1

\* the orders in which a SELECT without ORDER BY may return the rows ids
Orders(ids) ==
    {o \in [1..Cardinality(ids) -> ids] :
        \A i, k \in 1..Cardinality(ids) : i # k => o[i] # o[k]}

\* get_versions_by_name: models.sort(key=parse_semver(version), reverse=True)
\* (stable, so rows with equal keys keep the order of the SELECT)
get_versions_by_name(name) ==
    LET ids == {m \in DOMAIN models : models[m].name = name}
    IN  {o \in Orders(ids) :
            \A i, k \in 1..Cardinality(ids) :
                i < k => ~key_lt(parse_semver(models[o[i]].version),
                                 parse_semver(models[o[k]].version))}

\* get_latest_by_name: max(models, key=parse_semver(version)), the rows
\* being those of the name, READY ones only if ready_only
get_latest_by_name(name, ready_only) ==
    LET ids == {m \in DOMAIN models :
                    /\ models[m].name = name
                    /\ ready_only => models[m].status = READY}
    IN  {m \in ids :
            \A o \in ids : ~key_lt(parse_semver(models[m].version),
                                   parse_semver(models[o].version))}

\* GET /models/by-name/{name}/versions
list_model_versions(name) ==
    /\ IF get_versions_by_name(name) = {<<>>}
       THEN resp' = Response("list_model_versions", 0, 404, FALSE, NULL)
       ELSE \E versions \in get_versions_by_name(name) :
                resp' = Response("list_model_versions", versions[1], 200, FALSE,
                            [i \in DOMAIN versions |-> models[versions[i]].version])
    /\ UNCHANGED <<waiter, redis, raceVars, modelCache, catalogVars, serveVars, jobVars, idVars>>

\* GET /models/by-name/{name}/latest?ready_only=
get_latest_model_version(name, ready_only) ==
    /\ IF get_latest_by_name(name, ready_only) = {}
       THEN resp' = Response("get_latest_model_version", 0, 404, FALSE, NULL)
       ELSE \E m \in get_latest_by_name(name, ready_only) :
                resp' = Response("get_latest_model_version", m, 200, FALSE,
                                 models[m].version)
    /\ UNCHANGED <<waiter, redis, raceVars, modelCache, catalogVars, serveVars, jobVars, idVars>>

\* ---------------------------------------------------- artifact store
\* Path strings handed to the store, as sequences of characters:
\* "1.onnx", "../1.onnx", "../../etc/p", "/etc/p", "..", "a/..", "a/.",
\* ".", "", "a/", "/" and "..a".
PathStrings ==
    {<<"1", ".", "o", "n", "n", "x">>,
     <<".", ".", "/", "1", ".", "o", "n", "n", "x">>,
     <<".", ".", "/", ".", ".", "/", "e", "t", "c", "/", "p">>,
     <<"/", "e", "t", "c", "/", "p">>,
     <<".", ".">>,
     <<"a", "/", ".", ".">>,
     <<"a", "/", ".">>,
     <<".">>,
     <<>>,
     <<"a", "/">>,
     <<"/">>,
     <<".", ".", "a">>}

\* LocalStorageService.base_path (absolute, already resolved): /srv/models,
\* as the sequence of its components
base_path == <<<<"s", "r", "v">>, <<"m", "o", "d", "e", "l", "s">>>>

\* str.split("/")
RECURSIVE split(_)
split(s) ==
    LET slashes == {i \in 1..Len(s) : s[i] = "/"}
        first == CHOOSE i \in slashes : \A k \in slashes : i <= k
    IN  IF slashes = {} THEN <<s>>
        ELSE <<SubSeq(s, 1, first - 1)>> \o split(SubSeq(s, first + 1, Len(s)))

\* the components pathlib keeps of a path string: empty ones and "." are
\* dropped, ".." is kept
path_parts(path) ==
    SelectSeq(split(path), LAMBDA t : t # <<>> /\ t # <<".">>)

\* Path(path).name: the last component, "" when there is none
path_name(path) ==
    IF path_parts(path) = <<>> THEN <<>>
    ELSE path_parts(path)[Len(path_parts(path))]

\* base / name, for a name without a separator
joinpath(base, name) == IF name = <<>> THEN base ELSE Append(base, name)

\* Path.resolve() of an absolute path in a directory tree without symbolic
\* links: ".." steps to the parent, the parent of the root being the root
RECURSIVE resolve(_)
resolve(p) ==
    IF p = <<>> THEN <<>>
    ELSE LET front == resolve(SubSeq(p, 1, Len(p) - 1))
             last == p[Len(p)]
         IN  IF last # <<".", ".">> THEN Append(front, last)
             ELSE IF front = <<>> THEN <<>>
             ELSE SubSeq(front, 1, Len(front) - 1)

\* str(path) of an absolute path
RECURSIVE str(_)
str(p) ==
    IF p = <<>> THEN <<"/">>
    ELSE IF Len(p) = 1 THEN <<"/">> \o p[1]
    ELSE str(SubSeq(p, 1, Len(p) - 1)) \o <<"/">> \o p[Len(p)]

\* a check that lets every path through
startswith_anything(s, prefix) == TRUE

\* str.startswith
startswith(s, prefix) ==
    Len(s) >= Len(prefix) /\ SubSeq(s, 1, Len(prefix)) = prefix

\* what a store method does: raise (raised is the exception) or return value
Raised(exception) == [raised |-> <<exception>>, value |-> NULL]
Returned(value) == [raised |-> NULL, value |-> value]

\* LocalStorageService._resolve_path
resolve_path(path) ==
    LET safe_path == path_name(path)
        resolved == resolve(joinpath(base_path, safe_path))
    IN  IF ~startswith(str(resolved), str(base_path))
        THEN Raised("StorageError")
        ELSE Returned(resolved)

\* str(model.id), the ids being single digits here
str_id(m) == <<<<"1", "2", "3", "4", "5", "6", "7", "8", "9">>[m]>>

\* where storage.save put the file of a storage filename: base_path / name
saved_at(filename) ==
    Append(base_path, str_id(filename[1]) \o <<".", "o", "n", "n", "x">>)

\* Path.is_file() and Path.exists() on the storage directory
is_file(p) == \E filename \in DOMAIN blobs : saved_at(filename) = p
path_exists(p) ==
    is_file(p) \/ (Len(p) <= Len(base_path) /\ p = SubSeq(base_path, 1, Len(p)))

\* LocalStorageService.get_path
get_path(path) ==
    /\ resp' = Response("get_path", path, 0, FALSE,
                   IF resolve_path(path).raised # NULL THEN resolve_path(path)
                   ELSE IF ~path_exists(resolve_path(path).value)
                   THEN Raised("FileNotFoundError")
                   ELSE Returned(resolve_path(path).value))
    /\ UNCHANGED <<waiter, redis, raceVars, modelCache, catalogVars, serveVars, jobVars, idVars>>

\* LocalStorageService.exists
exists(path) ==
    /\ resp' = Response("exists", path, 0, FALSE,
                   IF resolve_path(path).raised # NULL THEN resolve_path(path)
                   ELSE Returned(<<path_exists(resolve_path(path).value)
                                   /\ is_file(resolve_path(path).value)>>))
    /\ UNCHANGED <<waiter, redis, raceVars, modelCache, catalogVars, serveVars, jobVars, idVars>>

\* ------------------------------------------------------- environment
\* The artifact file is removed from the storage directory by something
\* other than the API (the case get_cached_session and get_path test for).
ArtifactRemoved(path) ==
    /\ path \in DOMAIN blobs
    /\ blobs' = RemoveKey(blobs, path)
    /\ UNCHANGED <<waiter, redis, raceVars, modelCache, models, validating, creating, serveVars, jobVars, idVars, resp>>

\* The result-cache store stops answering (RedisError on every call) ...
RedisDown ==
    /\ redis = "up"
    /\ redis' = "down"
    /\ UNCHANGED <<waiter, raceVars, modelCache, catalogVars, serveVars, jobVars, idVars, resp>>

\* ... and answers again, with the keys it held
RedisUp ==
    /\ redis = "down"
    /\ redis' = "up"
    /\ UNCHANGED <<waiter, raceVars, modelCache, catalogVars, serveVars, jobVars, idVars, resp>>

\* -------------------------------------------- POST /models/{id}/predict
\* input_data is known by the tensor names it supplies
Inputs == {{"input"}, {"extra"}}

\* the input names of the session compiled from a loadable artifact
input_names(content) == {"input"}

\* a check that also counts the names the model does not declare
missing_or_extra_inputs(names, input_data) ==
    (names \ input_data) \cup (input_data \ names)

\* run_inference: set(input_names) - set(input_data.keys())
missing_inputs(names, input_data) == names \ input_data

\* _prepare_inputs: the tensors handed to the session, those of the
\* declared names
prepare_inputs(names, input_data) == input_data \cap names

\* what the graph computes from the tensors it is given
Outputs(x) == <<"output", prepare_inputs(input_names("good"), x)>>

\* an engine adapter that does not time the run
InferenceResult_untimed(x) == [outputs |-> Outputs(x), inference_time_ms |-> 0]

\* InferenceResult of ONNXService.run_inference: the outputs and the time
\* session.run took, (end_time - start_time) * 1000
InferenceResult(x) == [outputs |-> Outputs(x), inference_time_ms |-> 5]

\* PredictionCache.get_prediction
get_prediction(m, x) ==
    IF is_connected /\ <<m, x>> \in DOMAIN predCache
    THEN [hit |-> TRUE, output_data |-> predCache[<<m, x>>].output_data,
          inference_time_ms |-> predCache[<<m, x>>].inference_time_ms]
    ELSE [hit |-> FALSE, output_data |-> NULL, inference_time_ms |-> NULL]

\* PredictionCache.set_prediction: the store after the call
set_prediction(m, x, output_data, inference_time_ms) ==
    IF is_connected
    THEN [k \in DOMAIN predCache \cup {<<m, x>>} |->
            IF k = <<m, x>>
            THEN [output_data |-> output_data,
                  inference_time_ms |-> inference_time_ms]
            ELSE predCache[k]]
    ELSE predCache

\* CRUDPrediction.create_with_results: the row inserted
create_with_results(m, x, output_data, inference_time_ms, cached) ==
    [model_id |-> m, input_data |-> x, output_data |-> output_data,
     inference_time_ms |-> inference_time_ms, cached |-> cached]

\* create_prediction.  run is what session.run does once it is reached:
\* "ok" or "fail" (the runtime refuses the tensors).
create_prediction(m, x, skip_cache, run) ==
    LET path == models[m].file_path
        cache_result == get_prediction(m, x)
        hit == ~skip_cache /\ cache_result.hit
        result == InferenceResult(x)
        Reject(code, engine, detail) ==
            /\ resp' = Response("predict", m, code, engine, detail)
            /\ UNCHANGED <<predictions, predCache, sessions>>
    IN
    /\ IF m \notin DOMAIN models THEN Reject(404, FALSE, NULL)
       ELSE IF ~is_committed(models[m]) THEN Reject(400, FALSE, NULL)
       ELSE IF path = NULL
       THEN Reject(500, FALSE,
                <<"POST-COMMITMENT INVARIANT VIOLATED",
                  "committed model has file_path set", "file_path is None">>)
       ELSE IF hit
       THEN /\ predictions' = predictions \cup
                    {create_with_results(m, x, cache_result.output_data,
                        cache_result.inference_time_ms, TRUE)}
            /\ resp' = Response("predict", m, 201, FALSE, NULL)
            /\ UNCHANGED <<predCache, sessions>>
       ELSE IF path \notin DOMAIN blobs
       THEN \* storage.get_path raises FileNotFoundError
            Reject(500, FALSE,
                <<"Failed to access model file", "File not found">>)
       ELSE IF path \notin sessions /\ blobs[path] # "good"
       THEN Reject(500, TRUE, <<"Failed to load model">>)  \* ONNXLoadError
       ELSE IF missing_inputs(input_names(blobs[path]), x) # {}
       THEN /\ resp' = Response("predict", m, 400, TRUE, NULL)  \* ONNXInputError
            /\ sessions' = sessions \cup {path}
            /\ UNCHANGED <<predictions, predCache>>
       ELSE IF run = "fail"
       THEN /\ resp' = Response("predict", m, 500, TRUE, NULL)  \* ONNXInferenceError
            /\ sessions' = sessions \cup {path}
            /\ UNCHANGED <<predictions, predCache>>
       ELSE /\ sessions' = sessions \cup {path}
            /\ predCache' = set_prediction(m, x, result.outputs,
                                            result.inference_time_ms)
            /\ predictions' = predictions \cup
                    {create_with_results(m, x, result.outputs,
                        result.inference_time_ms, FALSE)}
            /\ resp' = Response("predict", m, 201, TRUE, NULL)
    /\ UNCHANGED <<waiter, redis, raceVars, modelCache, catalogVars, jobVars, idVars>>

\* ------------------------------------------------------ ONNXService
\* input_data of direct calls of the engine adapter, by the names supplied
EngineInputs == {{"input"}, {"extra"}, {"input", "extra"}, {}}

\* an exception with the head of its message
RaisedWith(exception, message) == [raised |-> <<exception>>, value |-> message]

\* a cache that is emptied when one of its files is found missing
get_cached_session_clearing(path) ==
    IF path \in sessions /\ path \notin DOMAIN blobs
    THEN [raised |-> <<"PostCommitmentInvariantViolation">>, session_cache |-> {}]
    ELSE IF path \in sessions
    THEN [raised |-> NULL, session_cache |-> sessions]
    ELSE IF path \notin DOMAIN blobs \/ blobs[path] # "good"
    THEN [raised |-> <<"ONNXLoadError">>, session_cache |-> sessions]
    ELSE [raised |-> NULL, session_cache |-> sessions \cup {path}]

\* ONNXService.get_cached_session: what it raises, and _session_cache after
\* the call
get_cached_session(path) ==
    IF path \in sessions /\ path \notin DOMAIN blobs
    THEN [raised |-> <<"PostCommitmentInvariantViolation">>,
          session_cache |-> sessions \ {path}]
    ELSE IF path \in sessions
    THEN [raised |-> NULL, session_cache |-> sessions]
    ELSE IF path \notin DOMAIN blobs \/ blobs[path] # "good"
    THEN [raised |-> <<"ONNXLoadError">>, session_cache |-> sessions]
    ELSE [raised |-> NULL, session_cache |-> sessions \cup {path}]

\* ONNXService.run_inference called on the adapter of the API process.
\* run is what happens once the names are there: "ok", "unconvertible" (a
\* value that numpy cannot convert) or "fail" (session.run raises).
run_inference(path, input_data, run) ==
    /\ sessions' = get_cached_session(path).session_cache
    /\ resp' = Response("run_inference", path, 0, TRUE,
            IF get_cached_session(path).raised # NULL
            THEN RaisedWith(get_cached_session(path).raised[1], NULL)
            ELSE IF missing_inputs(input_names("good"), input_data) # {}
            THEN RaisedWith("ONNXInputError", <<"Missing required inputs">>)
            ELSE IF run = "unconvertible"
            THEN RaisedWith("ONNXInputError", <<"Failed to prepare inputs">>)
            ELSE IF run = "fail"
            THEN RaisedWith("ONNXInferenceError", <<"Inference failed">>)
            ELSE Returned(InferenceResult(input_data)))
    /\ UNCHANGED <<waiter, redis, raceVars, modelCache, catalogVars, predictions, predCache, jobVars, idVars>>

\* ------------------------------------------------------- POST /jobs
JobStatus == {"pending", "queued", "running", "completed", "failed", "cancelled"}
\* a terminal set that a running job slipped into
TerminalStatuses_with_running == {"completed", "failed", "cancelled", "running"}

\* _TERMINAL_STATUSES
TerminalStatuses == {"completed", "failed", "cancelled"}

task_id_of(j) == <<"task", j>>

\* a create_job that forgets to store the task id
queued_without_task_id(row, task_id) == update(row, [status |-> "queued"])

\* create_job after delay() returned: the task id and QUEUED are stored
queued(row, task_id) ==
    update(row, [celery_task_id |-> task_id, status |-> "queued"])

\* create_job: the READY check, the INSERT and run_inference_task.delay;
\* enqueue is whether delay() returns ("ok") or raises ("raises").
create_job(j, m, x, enqueue) ==
    /\ IF m \notin DOMAIN models
       THEN /\ resp' = Response("create_job", m, 404, FALSE, NULL)
            /\ UNCHANGED <<jobTx, broker, issuedJobs>>
       ELSE IF models[m].status # READY
       THEN /\ resp' = Response("create_job", m, 400, FALSE, NULL)
            /\ UNCHANGED <<jobTx, broker, issuedJobs>>
       ELSE /\ j \notin issuedJobs
            /\ issuedJobs' = issuedJobs \cup {j}
            /\ LET row == [model_id |-> m, status |-> "pending",
                           input_data |-> x, output_data |-> NULL,
                           celery_task_id |-> NULL, worker_id |-> NULL,
                           retries |-> 0, error_message |-> NULL,
                           error_traceback |-> NULL,
                           inference_time_ms |-> NULL, queue_time_ms |-> NULL,
                           created_at |-> <<now>>, started_at |-> NULL,
                           completed_at |-> NULL]
               IN  IF enqueue = "ok"
                   THEN /\ broker' = broker \cup {Msg(task_id_of(j), j, 0)}
                        /\ jobTx' = jobTx @@ (j :> queued(row, task_id_of(j)))
                   ELSE /\ jobTx' = jobTx @@ (j :> row)
                        /\ UNCHANGED broker
            /\ resp' = Response("create_job", m, 201, FALSE, NULL)
    /\ UNCHANGED <<waiter, redis, raceVars, modelCache, catalogVars, serveVars, jobs, revoked, worker, engineRuns,
                   outputWrites, lost, issued, now>>

\* get_db commits the create_job transaction: the row becomes visible
\* (the foreign key rejects it if the model row is gone by then)
create_job_commit(j) ==
    /\ j \in DOMAIN jobTx
    /\ jobTx' = RemoveKey(jobTx, j)
    /\ IF jobTx[j].model_id \in DOMAIN models
       THEN /\ jobs' = jobs @@ (j :> jobTx[j])
            /\ engineRuns' = engineRuns @@ (j :> 0)
            /\ outputWrites' = outputWrites @@ (j :> 0)
       ELSE UNCHANGED <<jobs, engineRuns, outputWrites>>
    /\ UNCHANGED <<waiter, redis, raceVars, modelCache, catalogVars, serveVars, broker, revoked, worker, lost,
                   idVars, resp>>

\* ------------------------------------------- worker: run_inference_task
\* The worker takes a message off the queue and runs the task up to the
\* commit that marks the job RUNNING.  A revoked task id is discarded.
task_start(msg) ==
    /\ worker.pc = "idle"
    /\ msg \in broker
    /\ broker' = broker \ {msg}
    /\ IF msg.task_id \in revoked
       THEN UNCHANGED <<worker, jobs>>
       ELSE IF msg.job_id \notin DOMAIN jobs
       THEN \* "Job not found": the task returns an error dict
            /\ worker' = [pc |-> "done", msg |-> msg]
            /\ UNCHANGED jobs
       ELSE /\ jobs' = [jobs EXCEPT ![msg.job_id] = update(@,
                    [status |-> "running", started_at |-> <<now>>,
                     queue_time_ms |-> <<now - jobs[msg.job_id].created_at[1]>>,
                     celery_task_id |-> msg.task_id, worker_id |-> <<"w1">>,
                     retries |-> msg.retries])]
            /\ worker' = [pc |-> "running", msg |-> msg]
    /\ UNCHANGED <<waiter, redis, raceVars, modelCache, catalogVars, serveVars, jobTx, revoked, engineRuns,
                   outputWrites, lost, idVars, resp>>

\* a retry that counts the first attempt among the retries allowed
autoretry_one_more(msg) ==
    IF msg.retries <= job_max_retries
    THEN broker \cup {Msg(msg.task_id, msg.job_id, msg.retries + 1)}
    ELSE broker

\* autoretry_for=(Exception,): Task.retry sends the task again with
\* retries + 1 unless max_retries is used up
autoretry(msg) ==
    IF msg.retries < job_max_retries
    THEN broker \cup {Msg(msg.task_id, msg.job_id, msg.retries + 1)}
    ELSE broker

\* ONNXError and its subclasses (services/onnx.py)
ONNXError_without_load ==
    {"ONNXValidationError", "ONNXInferenceError", "ONNXInputError",
     "PostCommitmentInvariantViolation"}

ONNXError ==
    {"ONNXLoadError", "ONNXValidationError", "ONNXInferenceError",
     "ONNXInputError", "PostCommitmentInvariantViolation"}

\* What the try block of the task raises for job row `row` ("none": it
\* returns).  run is what the engine run does once reached: "ok", "fail"
\* (the runtime raises) or "soft_time_limit" (SoftTimeLimitExceeded is
\* raised in the task while the engine runs).  The task builds a new
\* ONNXService, so its session cache is empty and a missing file is a load
\* error.
task_raises(row, run) ==
    LET m == row.model_id
        path == models[m].file_path
    IN  IF m \notin DOMAIN models THEN "ValueError"
        ELSE IF models[m].status # READY THEN "ValueError"
        ELSE IF path = NULL THEN "ValueError"
        ELSE IF path \notin DOMAIN blobs \/ blobs[path] # "good"
        THEN "ONNXLoadError"
        ELSE IF missing_inputs(input_names(blobs[path]), row.input_data) # {}
        THEN "ONNXInputError"
        ELSE IF run = "fail" THEN "ONNXInferenceError"
        ELSE IF run = "soft_time_limit" THEN "SoftTimeLimitExceeded"
        ELSE "none"

\* finally: "if job.status == JobStatus.RUNNING"
still_running(row) == row.status = "running"

\* The task from the model lookup to its end (try / except / finally) and
\* Celery's retry decision.
task_body(run) ==
    /\ worker.pc = "running"
    /\ worker' = [worker EXCEPT !.pc = "done"]
    /\ LET msg == worker.msg
           j == msg.job_id
           row == jobs[j]
           exc == task_raises(row, run)
           \* except Exception: retries is stored, the exception re-raised;
           \* finally: a row still RUNNING is marked FAILED
           Retry ==
               /\ jobs' = [jobs EXCEPT ![j] =
                    IF still_running(row)
                    THEN update(row, [retries |-> msg.retries + 1,
                            status |-> "failed",
                            error_message |-> <<"Task exited unexpectedly">>,
                            completed_at |-> <<now>>])
                    ELSE update(row, [retries |-> msg.retries + 1])]
               /\ broker' = autoretry(msg)
               /\ UNCHANGED <<engineRuns, outputWrites>>
           \* except ONNXError: FAILED, the task returns (no retry)
           Fail ==
               /\ jobs' = [jobs EXCEPT ![j] = update(row,
                        [status |-> "failed", error_message |-> <<exc>>,
                         error_traceback |-> <<"traceback">>,
                         completed_at |-> <<now>>])]
               /\ UNCHANGED <<broker, engineRuns, outputWrites>>
       IN
       IF j \notin DOMAIN jobs
       THEN \* the row was deleted under the task: every access raises
            /\ broker' = autoretry(msg)
            /\ UNCHANGED <<jobs, engineRuns, outputWrites>>
       ELSE IF exc \in ONNXError THEN Fail
       ELSE IF exc # "none" THEN Retry
       ELSE /\ jobs' = [jobs EXCEPT ![j] = update(row,
                    [status |-> "completed",
                     output_data |-> Outputs(row.input_data),
                     inference_time_ms |-> <<5>>,
                     completed_at |-> <<now>>])]
            /\ engineRuns' = [engineRuns EXCEPT ![j] = @ + 1]
            /\ outputWrites' = [outputWrites EXCEPT ![j] = @ + 1]
            /\ UNCHANGED broker
    /\ UNCHANGED <<waiter, redis, raceVars, modelCache, catalogVars, serveVars, jobTx, revoked, lost, idVars, resp>>

\* task_acks_late: the message is acknowledged once the task has returned
task_ack ==
    /\ worker.pc = "done"
    /\ worker' = [pc |-> "idle", msg |-> NoMsg]
    /\ UNCHANGED <<waiter, redis, raceVars, modelCache, catalogVars, serveVars, jobs, jobTx, broker, revoked,
                   engineRuns, outputWrites, lost, idVars, resp>>

\* task_reject_on_worker_lost: the worker process dies before the message
\* is acknowledged, and the broker delivers the message again
WorkerLost ==
    /\ worker.pc \in {"running", "done"}
    /\ lost < MaxLost
    /\ lost' = lost + 1
    /\ broker' = broker \cup {worker.msg}
    /\ worker' = [pc |-> "idle", msg |-> NoMsg]
    /\ UNCHANGED <<waiter, redis, raceVars, modelCache, catalogVars, serveVars, jobs, jobTx, revoked, engineRuns,
                   outputWrites, idVars, resp>>

\* task_time_limit: the hard limit is reached while the engine runs; the
\* pool kills the process running the task (no except or finally block
\* runs) and the worker settles the message as timed out: it is
\* acknowledged, not delivered again.
hard_time_limit ==
    /\ worker.pc = "running"
    /\ worker' = [pc |-> "idle", msg |-> NoMsg]
    /\ UNCHANGED <<waiter, redis, raceVars, modelCache, catalogVars, serveVars, jobs, jobTx, broker, revoked,
                   engineRuns, outputWrites, lost, idVars, resp>>

\* -------------------------------------------- POST /jobs/{id}/cancel
\* an update_status that stamps completed_at only on worker outcomes
update_status_forgets_cancelled(row, status) ==
    IF status = "running"
    THEN update(row, [status |-> status, started_at |-> <<now>>])
    ELSE IF status \in {"completed", "failed"}
    THEN update(row, [status |-> status, completed_at |-> <<now>>])
    ELSE update(row, [status |-> status])

\* CRUDJob.update_status
update_status(row, status) ==
    IF status = "running"
    THEN update(row, [status |-> status, started_at |-> <<now>>])
    ELSE IF status \in TerminalStatuses
    THEN update(row, [status |-> status, completed_at |-> <<now>>])
    ELSE update(row, [status |-> status])

\* a guard that only keeps completed jobs from being cancelled
can_cancel_unless_completed(row) == row.status # "completed"

\* cancel_job: "job.status in (PENDING, QUEUED, RUNNING)"
can_cancel(row) == row.status \in {"pending", "queued", "running"}

\* cancel_job; revoke is whether control.revoke gets through ("ok": the
\* worker records the id and terminates the task if it is running it) or
\* raises ("raises": logged, nothing revoked).
cancel_job(j, revoke) ==
    /\ IF j \notin DOMAIN jobs
       THEN /\ resp' = Response("cancel_job", j, 404, FALSE, NULL)
            /\ UNCHANGED <<jobs, revoked, worker>>
       ELSE IF ~can_cancel(jobs[j])
       THEN /\ resp' = Response("cancel_job", j, 400, FALSE, NULL)
            /\ UNCHANGED <<jobs, revoked, worker>>
       ELSE /\ IF jobs[j].celery_task_id # NULL /\ revoke = "ok"
               THEN /\ revoked' = revoked \cup {jobs[j].celery_task_id}
                    /\ worker' =
                         IF worker.pc = "running"
                            /\ worker.msg.task_id = jobs[j].celery_task_id
                         THEN [pc |-> "idle", msg |-> NoMsg]
                         ELSE worker
               ELSE UNCHANGED <<revoked, worker>>
            /\ jobs' = [jobs EXCEPT ![j] = update_status(@, "cancelled")]
            /\ resp' = Response("cancel_job", j, 200, FALSE, NULL)
    /\ UNCHANGED <<waiter, redis, raceVars, modelCache, catalogVars, serveVars, jobTx, broker, engineRuns,
                   outputWrites, lost, idVars>>

\* cancel_job as the two steps other transactions can fall between: the
\* read of the row with the status check and the revoke ...
cancel_job_check(j, revoke) ==
    /\ j \notin cancelling
    /\ IF j \notin DOMAIN jobs
       THEN /\ resp' = Response("cancel_job", j, 404, FALSE, NULL)
            /\ UNCHANGED <<cancelling, revoked, worker>>
       ELSE IF ~can_cancel(jobs[j])
       THEN /\ resp' = Response("cancel_job", j, 400, FALSE, NULL)
            /\ UNCHANGED <<cancelling, revoked, worker>>
       ELSE /\ IF jobs[j].celery_task_id # NULL /\ revoke = "ok"
               THEN /\ revoked' = revoked \cup {jobs[j].celery_task_id}
                    /\ worker' =
                         IF worker.pc = "running"
                            /\ worker.msg.task_id = jobs[j].celery_task_id
                         THEN [pc |-> "idle", msg |-> NoMsg]
                         ELSE worker
               ELSE UNCHANGED <<revoked, worker>>
            /\ cancelling' = cancelling \cup {j}
            /\ UNCHANGED resp
    /\ UNCHANGED <<waiter, redis, reaper, modelTx, uploading, modelCache,
                   catalogVars, serveVars, jobs, jobTx, broker, engineRuns,
                   outputWrites, lost, idVars>>

\* ... and update_status with the commit of the request: the UPDATE is
\* keyed by the id alone and writes whatever the row holds by then (a row
\* deleted in between makes update_status return None, a 500)
cancel_job_write(j) ==
    /\ j \in cancelling
    /\ cancelling' = cancelling \ {j}
    /\ IF j \notin DOMAIN jobs
       THEN /\ resp' = Response("cancel_job", j, 500, FALSE, NULL)
            /\ UNCHANGED jobs
       ELSE /\ jobs' = [jobs EXCEPT ![j] = update_status(@, "cancelled")]
            /\ resp' = Response("cancel_job", j, 200, FALSE, NULL)
    /\ UNCHANGED <<waiter, redis, reaper, modelTx, uploading, modelCache,
                   catalogVars, serveVars, jobTx, broker, revoked, worker,
                   engineRuns, outputWrites, lost, idVars>>

\* ------------------------------------------------- DELETE /jobs/{id}
delete_job(j) ==
    /\ IF j \notin DOMAIN jobs
       THEN /\ resp' = Response("delete_job", j, 404, FALSE, NULL)
            /\ UNCHANGED <<jobs, engineRuns, outputWrites>>
       ELSE IF jobs[j].status \notin TerminalStatuses
       THEN /\ resp' = Response("delete_job", j, 400, FALSE, NULL)
            /\ UNCHANGED <<jobs, engineRuns, outputWrites>>
       ELSE /\ jobs' = RemoveKey(jobs, j)
            /\ engineRuns' = RemoveKey(engineRuns, j)
            /\ outputWrites' = RemoveKey(outputWrites, j)
            /\ resp' = Response("delete_job", j, 204, FALSE, NULL)
    /\ UNCHANGED <<waiter, redis, raceVars, modelCache, catalogVars, serveVars, jobTx, broker, revoked, worker,
                   lost, idVars>>

\* ------------------------------------------- GET /jobs/{id}/result
\* _PROCESSING_STATUSES
ProcessingStatuses == {"pending", "queued", "running"}

\* waits are counted in tenths of a second: _POLL_INTERVAL_SECONDS is 0.5
POLL_INTERVAL_TENTHS == 5

MAX_WAIT_SECONDS == 30

TenthsPerSecond == 10

\* the wait query parameters looked at: none, less than one interval, two
\* intervals, and one beyond the maximum (refused by the framework)
Waits == {0, 3, 10, MAX_WAIT_SECONDS * TenthsPerSecond + 1}

\* a result body that copies the row's columns whatever its status
JobResultResponse_unconditional(row) ==
    [status |-> row.status,
     result |-> row.output_data,
     error_message |-> row.error_message,
     error_traceback |-> row.error_traceback,
     inference_time_ms |-> row.inference_time_ms,
     completed_at |-> row.completed_at]

\* the JobResultResponse built at the end of get_job_result
JobResultResponse(row) ==
    [status |-> row.status,
     result |-> IF row.status = "completed" THEN row.output_data ELSE NULL,
     error_message |->
        IF row.status = "failed" THEN row.error_message ELSE NULL,
     error_traceback |->
        IF row.status = "failed" THEN row.error_traceback ELSE NULL,
     inference_time_ms |-> row.inference_time_ms,
     completed_at |-> row.completed_at]

\* "Build response based on final status": 202 while processing, else 200
result_response(j, row) ==
    IF row.status \in ProcessingStatuses
    THEN Response("get_job_result", j, 202, FALSE, [status |-> row.status])
    ELSE Response("get_job_result", j, 200, FALSE, JobResultResponse(row))

\* get_job_result up to its polling loop: answered at once unless wait > 0
\* and the job is still processing
get_job_result(j, wait) ==
    /\ waiter.pc = "idle"
    /\ IF wait < 0 \/ wait > MAX_WAIT_SECONDS * TenthsPerSecond
       THEN /\ resp' = Response("get_job_result", j, 422, FALSE, NULL)
            /\ UNCHANGED waiter
       ELSE IF j \notin DOMAIN jobs
       THEN /\ resp' = Response("get_job_result", j, 404, FALSE, NULL)
            /\ UNCHANGED waiter
       ELSE IF wait > 0 /\ jobs[j].status \in ProcessingStatuses
       THEN /\ waiter' = Waiter("polling", j, wait, 0)
            /\ UNCHANGED resp
       ELSE /\ resp' = result_response(j, jobs[j])
            /\ UNCHANGED waiter
    /\ UNCHANGED <<redis, raceVars, modelCache, catalogVars, serveVars, jobVars, idVars>>

\* a loop that never looks at the time slept
wait_never_over(elapsed, wait) == FALSE

\* the negation of the loop condition "while elapsed < wait"
wait_over(elapsed, wait) == ~(elapsed < wait)

\* one turn of the loop (sleep, elapsed += interval, db.refresh, the test
\* for a terminal status) and, when the loop ends, the answer; db.refresh of
\* a row that is gone raises InvalidRequestError
get_job_result_poll ==
    /\ waiter.pc = "polling"
    /\ LET j == waiter.job_id
           elapsed == waiter.elapsed + POLL_INTERVAL_TENTHS
       IN  IF j \notin DOMAIN jobs
           THEN /\ resp' = Response("get_job_result", j, 500, FALSE, NULL)
                /\ waiter' = Waiter("idle", j, waiter.wait, elapsed)
           ELSE IF jobs[j].status \in TerminalStatuses
                   \/ wait_over(elapsed, waiter.wait)
           THEN /\ resp' = result_response(j, jobs[j])
                /\ waiter' = Waiter("idle", j, waiter.wait, elapsed)
           ELSE /\ waiter' = Waiter("polling", j, waiter.wait, elapsed)
                /\ UNCHANGED resp
    /\ UNCHANGED <<redis, raceVars, modelCache, catalogVars, serveVars, jobVars, idVars>>

\* ------------------------------------------------------------ the clock
\* the instants looked at: the first days, and the days from the end of
\* the retention period on
Instants ==
    (1..MaxTime) \cup {job_retention_days + k : k \in 0..MaxTime}

\* time passes: the clock reads a later instant t
Tick(t) ==
    /\ t > now
    /\ now' = t
    /\ UNCHANGED <<waiter, redis, raceVars, modelCache, catalogVars, serveVars, jobVars, issued, issuedJobs, resp>>

\* ------------------------------------------- reaper: cleanup_old_jobs
\* statuses the reaper also takes running jobs from
CLEANUP_STATUSES_with_running == {"completed", "failed", "cancelled", "running"}

\* _CLEANUP_STATUSES
CLEANUP_STATUSES == {"completed", "failed", "cancelled"}

\* cleanup_old_jobs: DELETE ... WHERE status IN _CLEANUP_STATUSES AND
\* completed_at < now - retention (a NULL completed_at compares false)
cleanup_old_jobs ==
    LET cutoff_date == now - job_retention_days
        old == {j \in DOMAIN jobs :
                    /\ jobs[j].status \in CLEANUP_STATUSES
                    /\ jobs[j].completed_at # NULL
                    /\ jobs[j].completed_at[1] < cutoff_date}
        kept == DOMAIN jobs \ old
    IN  /\ jobs' = [j \in kept |-> jobs[j]]
        /\ engineRuns' = [j \in kept |-> engineRuns[j]]
        /\ outputWrites' = [j \in kept |-> outputWrites[j]]
        /\ UNCHANGED <<waiter, redis, raceVars, modelCache, catalogVars, serveVars, jobTx, broker, revoked, worker,
                       lost, idVars, resp>>

\* cleanup_old_jobs as the two statements it executes: the count query ...
cleanup_old_jobs_count ==
    /\ reaper.pc = "idle"
    /\ LET cutoff_date == now - job_retention_days
           count == Cardinality({j \in DOMAIN jobs :
                        /\ jobs[j].status \in CLEANUP_STATUSES
                        /\ jobs[j].completed_at # NULL
                        /\ jobs[j].completed_at[1] < cutoff_date})
       IN  IF count = 0
           THEN /\ resp' = Response("cleanup_old_jobs", 0, 0, FALSE,
                                [deleted_count |-> 0, error |-> NULL])
                /\ UNCHANGED reaper
           ELSE /\ reaper' = Reaper("counted", count, cutoff_date)
                /\ UNCHANGED resp
    /\ UNCHANGED <<waiter, redis, cancelling, modelTx, uploading, modelCache,
                   catalogVars, serveVars, jobVars, idVars>>

\* ... and the DELETE with its commit, on the rows that match by then; the
\* count returned is the one of the first statement
cleanup_old_jobs_delete ==
    /\ reaper.pc = "counted"
    /\ LET old == {j \in DOMAIN jobs :
                    /\ jobs[j].status \in CLEANUP_STATUSES
                    /\ jobs[j].completed_at # NULL
                    /\ jobs[j].completed_at[1] < reaper.cutoff_date}
           kept == DOMAIN jobs \ old
       IN  /\ jobs' = [j \in kept |-> jobs[j]]
           /\ engineRuns' = [j \in kept |-> engineRuns[j]]
           /\ outputWrites' = [j \in kept |-> outputWrites[j]]
    /\ resp' = Response("cleanup_old_jobs", 0, 0, FALSE,
                        [deleted_count |-> reaper.count, error |-> NULL])
    /\ reaper' = NoReaper
    /\ UNCHANGED <<waiter, redis, cancelling, modelTx, uploading, modelCache,
                   catalogVars, serveVars, jobTx, broker, revoked, worker,
                   lost, idVars>>

\* ------------------------------------------------- catalog specification
Opt(field, values) == {<<>>} \cup {field :> v : v \in values}

\* ModelUpdate bodies: every subset of the fields set
ModelUpdates ==
    {a @@ b @@ c @@ d :
        a \in Opt("name", Names), b \in Opt("version", Versions),
        c \in Opt("status", ModelStatus),
        d \in Opt("model_metadata", {<<"user">>})}

\* The commitment state machine of one model.  The handlers other than
\* create and PATCH read and write no row but the one they are called on, so
\* one row shows every behaviour of the state machine.
CatalogIds == {1}

NextCatalog ==
    \/ \E n \in Names, v \in Versions, md \in {NULL, <<"user">>} :
            create_model_check(1, n, v, md)
    \/ \E m \in CatalogIds : create_model_insert(1, m)
    \/ \E m \in CatalogIds, u \in ModelUpdates : update_model(m, u)
    \/ \E m \in CatalogIds : delete_model(m)
    \/ \E m \in CatalogIds, f \in Filenames, c \in Contents,
          db \in {"ok", "flush", "commit"} : upload_model_file(m, f, c, db)
    \/ \E m \in CatalogIds : validate_model_begin(m)
    \/ \E m \in CatalogIds : validate_model_finish(m)
    \/ \E m \in CatalogIds : ArtifactRemoved(storage_filename(m))

SpecCatalog == Init /\ [][NextCatalog]_vars

\* ------------------------------------------------- naming specification
\* (name, version) uniqueness: concurrent creates and PATCHes of several rows
NextNaming ==
    \/ \E s \in Slots, n \in Names, v \in Versions :
            create_model_check(s, n, v, NULL)
    \/ \E s \in Slots, m \in ModelIds : create_model_insert(s, m)
    \/ \E m \in ModelIds,
          u \in {a @@ b : a \in Opt("name", Names), b \in Opt("version", Versions)} :
            update_model(m, u)
    \/ \E m \in ModelIds : delete_model(m)

SpecNaming == Init /\ [][NextNaming]_vars

\* ===================================================== catalog claims

\* The newest version of row m: inside its open validate transaction the
\* row carries VALIDATING, otherwise it is the committed row.
RowStatus(m) == IF m \in validating THEN VALIDATING ELSE models[m].status

\* C2: once a model's state is READY, no step changes it to a state other
\* than ARCHIVED (there is no uncommit).
C2_NoUncommit ==
    [][\A m \in DOMAIN models \cap DOMAIN models' :
          models[m].status = READY => models'[m].status \in {READY, ARCHIVED}]_vars

\* C3: in every reachable catalog state a READY row has non-null file_path,
\* file_hash, input_schema and output_schema.
C3_ReadyHasArtifact ==
    \A m \in DOMAIN models :
        models[m].status = READY =>
            /\ models[m].file_path # NULL
            /\ models[m].file_hash # NULL
            /\ models[m].input_schema # NULL
            /\ models[m].output_schema # NULL

CommitmentTransitions ==
    {<<PENDING, UPLOADED>>, <<UPLOADED, VALIDATING>>, <<ERROR, VALIDATING>>,
     <<VALIDATING, READY>>, <<VALIDATING, ERROR>>}

\* C4: every state change of an existing row is a transition of the
\* commitment state machine (a rolled back transaction changes nothing).
C4_OnlyStateMachine ==
    [][\A m \in DOMAIN models \cap DOMAIN models' :
          \/ RowStatus(m)' = RowStatus(m)
          \/ <<RowStatus(m), RowStatus(m)'>> \in CommitmentTransitions
          \/ m \in validating /\ m \notin validating' /\ models'[m] = models[m]]_vars

TextColumns == {"file_path", "file_hash", "input_schema", "output_schema",
                "model_metadata"}

\* C5: a validate call that passed its precondition checks ends with the
\* row READY with schemas and runtime metadata recorded, or ERROR with the
\* validation error message recorded on the row.
C5_CommitOutcome ==
    [][\A m \in CatalogIds :
          validate_model_finish(m) =>
              \/ /\ models'[m].status = READY
                 /\ models'[m].input_schema # NULL
                 /\ models'[m].output_schema # NULL
                 /\ models'[m].model_metadata = <<"onnx">>
              \/ /\ models'[m].status = ERROR
                 /\ \E f \in TextColumns :
                        /\ models'[m][f] # NULL
                        /\ models'[m][f] = resp'.msg]_vars

\* C6: validate is refused with 400 when the row has no file_path, with 409
\* when it has one and its status is not UPLOADED or ERROR, and a refused
\* call leaves the row (and the stored blob) unchanged.
C6_ValidateRefusal ==
    [][\A m \in DOMAIN models :
          validate_model_begin(m) =>
              /\ models[m].file_path = NULL => resp'.code = 400
              /\ (models[m].file_path # NULL
                    /\ models[m].status \notin {UPLOADED, ERROR})
                  => resp'.code = 409
              /\ (models[m].file_path = NULL
                    \/ models[m].status \notin {UPLOADED, ERROR})
                  => /\ resp'.op = "validate"
                     /\ UNCHANGED <<models, validating, blobs>>]_vars

\* C6 witness: a READY model with its artifact has just been refused with 409
C6_Witness ==
    /\ resp.op = "validate" /\ resp.code = 409
    /\ resp.id \in DOMAIN models
    /\ models[resp.id].status = READY
    /\ models[resp.id].file_path # NULL

C8_UniqueNameVersion ==
    \A m1 \in DOMAIN models, m2 \in DOMAIN models :
        (models[m1].name = models[m2].name
            /\ models[m1].version = models[m2].version) => m1 = m2

\* C8 witness: a create that passed the duplicate check concurrently with
\* another create of the same pair has been stopped by the unique constraint.
C8_Witness ==
    /\ resp.op = "create_model" /\ resp.code = 500
    /\ \E m \in DOMAIN models : models[m].name \in Names

\* ==================================================== job specification
\* One model taken through the commitment state machine, and the jobs
\* created on it: API handlers, broker and worker.
NextJobs ==
    \/ create_model_check(1, "m", "1.0.0", NULL)
    \/ \E m \in CatalogIds : create_model_insert(1, m)
    \/ \E m \in CatalogIds, c \in {"good", "bad"} :
            upload_model_file(m, <<"model", ".", "onnx">>, c, "ok")
    \/ \E m \in CatalogIds : validate_model_begin(m)
    \/ \E m \in CatalogIds : validate_model_finish(m)
    \/ \E m \in CatalogIds : ArtifactRemoved(storage_filename(m))
    \/ \E m \in CatalogIds : update_model(m, [status |-> ARCHIVED])
    \/ \E m \in CatalogIds : delete_model(m)
    \/ \E j \in JobIds, m \in CatalogIds, x \in Inputs,
          enqueue \in {"ok", "raises"} : create_job(j, m, x, enqueue)
    \/ \E j \in JobIds : create_job_commit(j)
    \/ \E msg \in broker : task_start(msg)
    \/ \E run \in {"ok", "fail", "soft_time_limit"} : task_body(run)
    \/ task_ack
    \/ WorkerLost
    \/ \E j \in JobIds, revoke \in {"ok", "raises"} : cancel_job(j, revoke)
    \/ \E j \in JobIds : delete_job(j)

SpecJobs == Init /\ [][NextJobs]_vars

\* C9: once a job's status is terminal no step changes it again.
C9_TerminalNeverRevisited ==
    [][\A j \in DOMAIN jobs \cap DOMAIN jobs' :
          jobs[j].status \in TerminalStatuses
              => jobs'[j].status = jobs[j].status]_vars

\* C10: for every job the engine runs to completion at most once and
\* output_data is written at most once.
C10_AtMostOnce ==
    \A j \in DOMAIN jobs : engineRuns[j] <= 1 /\ outputWrites[j] <= 1

\* ================================================== serve specification
\* One model in every state the API can put it in, and the two inference
\* entry points.
NextServe ==
    \/ create_model_check(1, "m", "1.0.0", NULL)
    \/ \E m \in CatalogIds : create_model_insert(1, m)
    \/ \E m \in CatalogIds, f \in {<<"model", ".", "onnx">>, <<"model", ".", "txt">>},
          c \in Contents : upload_model_file(m, f, c, "ok")
    \/ \E m \in CatalogIds : validate_model_begin(m)
    \/ \E m \in CatalogIds : validate_model_finish(m)
    \/ \E m \in CatalogIds : ArtifactRemoved(storage_filename(m))
    \/ \E m \in CatalogIds, u \in Opt("status", ModelStatus) : update_model(m, u)
    \/ \E m \in CatalogIds : delete_model(m)
    \/ \E m \in CatalogIds, x \in Inputs, skip_cache \in BOOLEAN,
          run \in {"ok", "fail"} : create_prediction(m, x, skip_cache, run)
    \/ \E j \in JobIds, m \in CatalogIds, x \in Inputs,
          enqueue \in {"ok", "raises"} : create_job(j, m, x, enqueue)
    \/ \E j \in JobIds : create_job_commit(j)

SpecServe == Init /\ [][NextServe]_vars

\* C1: a predict or job-creation request is accepted (201) only when the
\* model it names is READY at that moment; on a model in any other state it
\* is answered 400, the engine is not invoked and nothing is stored or queued.
C1_OnlyCommittedAccepted ==
    [][\A m \in DOMAIN models :
          /\ \A x \in Inputs, skip_cache \in BOOLEAN, run \in {"ok", "fail"} :
                (resp'.op = "predict" /\ create_prediction(m, x, skip_cache, run))
                => /\ resp'.code = 201 => models[m].status = READY
                   /\ models[m].status # READY
                        => /\ resp'.code = 400
                           /\ ~resp'.engine
                           /\ UNCHANGED <<predictions, predCache, sessions>>
          /\ \A j \in JobIds, x \in Inputs, enqueue \in {"ok", "raises"} :
                (resp'.op = "create_job" /\ create_job(j, m, x, enqueue))
                => /\ resp'.code = 201 => models[m].status = READY
                   /\ models[m].status # READY
                        => /\ resp'.code = 400
                           /\ UNCHANGED <<jobs, jobTx, broker>>]_vars

\* C1 witness: a predict on an uploaded, unvalidated model was answered 400
C1_Witness ==
    /\ resp.op = "predict" /\ resp.code = 400 /\ ~resp.engine
    /\ resp.id \in DOMAIN models
    /\ models[resp.id].status = UPLOADED

\* ================================================== queue specification
\* One job from creation to its end: the job handlers and the task read and
\* write no jobs row but the one they are called on.
QueueJobs == {1}

NextQueue ==
    \/ create_model_check(1, "m", "1.0.0", NULL)
    \/ \E m \in CatalogIds : create_model_insert(1, m)
    \/ \E m \in CatalogIds, c \in {"good", "bad"} :
            upload_model_file(m, <<"model", ".", "onnx">>, c, "ok")
    \/ \E m \in CatalogIds : validate_model_begin(m)
    \/ \E m \in CatalogIds : validate_model_finish(m)
    \/ \E m \in CatalogIds : ArtifactRemoved(storage_filename(m))
    \/ \E m \in CatalogIds : update_model(m, [status |-> ARCHIVED])
    \/ \E m \in CatalogIds : delete_model(m)
    \/ \E j \in QueueJobs, m \in CatalogIds, x \in Inputs,
          enqueue \in {"ok", "raises"} : create_job(j, m, x, enqueue)
    \/ \E j \in QueueJobs : create_job_commit(j)
    \/ \E msg \in broker : task_start(msg)
    \/ \E run \in {"ok", "fail", "soft_time_limit"} : task_body(run)
    \/ task_ack
    \/ WorkerLost
    \/ \E j \in QueueJobs, revoke \in {"ok", "raises"} : cancel_job(j, revoke)
    \/ \E j \in QueueJobs : delete_job(j)
    \/ hard_time_limit

SpecQueue == Init /\ [][NextQueue]_vars

\* C11: in every reachable state of a job row, completed_at is set if and
\* only if the job's status is COMPLETED, FAILED or CANCELLED.
C11_CompletedAtIffTerminal ==
    \A j \in DOMAIN jobs :
        (jobs[j].completed_at # NULL)
            <=> (jobs[j].status \in {"completed", "failed", "cancelled"})

\* C13: when the engine raises an engine error while a job runs, the job is
\* set to FAILED with error_message, error_traceback and completed_at
\* recorded, and no retry of the task is sent.
C13_EngineErrorPermanent ==
    [][\A run \in {"ok", "fail", "soft_time_limit"} :
          (/\ worker.pc = "running"
           /\ worker.msg.job_id \in DOMAIN jobs
           /\ task_raises(jobs[worker.msg.job_id], run) \in
                {"ONNXLoadError", "ONNXValidationError", "ONNXInferenceError",
                 "ONNXInputError", "PostCommitmentInvariantViolation"}
           /\ task_body(run))
          => LET j == worker.msg.job_id
             IN  /\ jobs'[j].status = "failed"
                 /\ jobs'[j].error_message # NULL
                 /\ jobs'[j].error_traceback # NULL
                 /\ jobs'[j].completed_at = <<now>>
                 /\ broker' = broker
                 /\ UNCHANGED <<engineRuns, outputWrites>>]_vars

\* C13 witness: the runtime refused the tensors, the job is FAILED with
\* message and traceback and nothing of it is left in the queue
C13_Witness ==
    /\ worker.pc = "done"
    /\ worker.msg.job_id \in DOMAIN jobs
    /\ jobs[worker.msg.job_id].status = "failed"
    /\ jobs[worker.msg.job_id].error_message = <<"ONNXInferenceError">>
    /\ jobs[worker.msg.job_id].error_traceback # NULL
    /\ broker = {}

\* C14: no execution of the task ends with the row RUNNING: when the
\* worker stops executing the task, for whatever reason, the row is not
\* RUNNING, and a row that was still RUNNING when a non-engine exception
\* left the task is FAILED with the diagnostic message.
C14_NeverLeftRunning ==
    [][(/\ worker.pc = "running"
        /\ worker'.pc # "running"
        /\ worker.msg.job_id \in DOMAIN jobs
        /\ worker.msg.job_id \in DOMAIN jobs')
       => LET j == worker.msg.job_id
          IN  /\ jobs'[j].status # "running"
              /\ \A run \in {"ok", "fail", "soft_time_limit"} :
                    (/\ task_body(run)
                     /\ jobs[j].status = "running"
                     /\ task_raises(jobs[j], run) \in
                            {"ValueError", "SoftTimeLimitExceeded"})
                    => /\ jobs'[j].status = "failed"
                       /\ jobs'[j].error_message = <<"Task exited unexpectedly">>
                       /\ jobs'[j].completed_at = <<now>>]_vars

\* C16: a cancel is answered 200 only on a PENDING, QUEUED or RUNNING job;
\* on a COMPLETED, FAILED or CANCELLED job it is answered 400 and changes
\* nothing.
C16_CancelOnlyActive ==
    [][\A j \in DOMAIN jobs, revoke \in {"ok", "raises"} :
          cancel_job(j, revoke)
          => /\ resp'.code = 200
                  => jobs[j].status \in {"pending", "queued", "running"}
             /\ jobs[j].status \in {"completed", "failed", "cancelled"}
                  => /\ resp'.code = 400
                     /\ UNCHANGED <<jobs, revoked, worker, broker>>]_vars

\* C16 witness: a cancel of a COMPLETED job was refused
C16_Witness ==
    /\ resp.op = "cancel_job" /\ resp.code = 400
    /\ resp.id \in DOMAIN jobs
    /\ jobs[resp.id].status = "completed"

\* C17: a permitted cancel sets the row CANCELLED with completed_at = now
\* and answers 200, whether the row has a task id or not and whether the
\* revoke gets through or raises.
C17_CancelRegardlessOfRevoke ==
    [][\A j \in DOMAIN jobs, revoke \in {"ok", "raises"} :
          (jobs[j].status \in {"pending", "queued", "running"}
             /\ cancel_job(j, revoke))
          => /\ j \in DOMAIN jobs'
             /\ jobs'[j].status = "cancelled"
             /\ jobs'[j].completed_at = <<now>>
             /\ resp'.code = 200]_vars

\* C17 witness: a job with a task id was cancelled although the revoke
\* raised (the task id is not revoked)
C17_Witness ==
    /\ resp.op = "cancel_job" /\ resp.code = 200
    /\ resp.id \in DOMAIN jobs
    /\ jobs[resp.id].status = "cancelled"
    /\ jobs[resp.id].completed_at # NULL
    /\ jobs[resp.id].celery_task_id # NULL
    /\ jobs[resp.id].celery_task_id \notin revoked

\* C18: job creation on a READY model answers 201; if the enqueue succeeds
\* the inserted row is QUEUED with its task id and the task is in the queue,
\* if it raises the row is PENDING without a task id.
C18_CreateJobAlways201 ==
    [][\A j \in QueueJobs, m \in DOMAIN models, x \in Inputs,
         enqueue \in {"ok", "raises"} :
          (models[m].status = READY /\ create_job(j, m, x, enqueue))
          => /\ resp'.code = 201
             /\ j \in DOMAIN jobTx'
             /\ jobTx'[j].model_id = m
             /\ IF enqueue = "ok"
                THEN /\ jobTx'[j].status = "queued"
                     /\ jobTx'[j].celery_task_id # NULL
                     /\ \E msg \in broker' \ broker :
                            /\ msg.job_id = j
                            /\ msg.task_id = jobTx'[j].celery_task_id
                ELSE /\ jobTx'[j].status = "pending"
                     /\ jobTx'[j].celery_task_id = NULL
                     /\ broker' = broker]_vars

\* C18 witness: the enqueue raised, the call was answered 201 and the row
\* is committed PENDING without a task id
C18_Witness ==
    /\ resp.op = "create_job" /\ resp.code = 201
    /\ \E j \in DOMAIN jobs :
          /\ jobs[j].status = "pending"
          /\ jobs[j].celery_task_id = NULL

\* C19: DELETE /jobs/{id} removes the row only when its status is terminal;
\* on a PENDING, QUEUED or RUNNING job it answers 400 and the row remains.
C19_DeleteOnlyTerminal ==
    [][\A j \in DOMAIN jobs :
          delete_job(j)
          => /\ j \notin DOMAIN jobs'
                  => jobs[j].status \in {"completed", "failed", "cancelled"}
             /\ jobs[j].status \in {"pending", "queued", "running"}
                  => /\ resp'.code = 400
                     /\ UNCHANGED jobs]_vars

\* C19 witness: the delete of a RUNNING job was refused
C19_Witness ==
    /\ resp.op = "delete_job" /\ resp.code = 400
    /\ resp.id \in DOMAIN jobs
    /\ jobs[resp.id].status = "running"

\* ================================================= reaper specification
\* The catalog after model 1 was created, given a loadable artifact and
\* validated (a state SpecCatalog reaches), and nothing else yet.
InitReady ==
    /\ models = (1 :> [name |-> "m", version |-> "1.0.0", status |-> READY,
                       file_path |-> storage_filename(1),
                       file_size_bytes |-> <<Size("good")>>,
                       file_hash |-> Sha256("good"),
                       input_schema |-> ValidationResult("good").input_schema,
                       output_schema |-> ValidationResult("good").output_schema,
                       model_metadata |-> ValidationResult("good").metadata])
    /\ validating = {}
    /\ blobs = (storage_filename(1) :> "good")
    /\ creating = [s \in Slots |-> NULL]
    /\ predictions = {}
    /\ predCache = <<>>
    /\ sessions = {}
    /\ jobs = <<>>
    /\ jobTx = <<>>
    /\ broker = {}
    /\ revoked = {}
    /\ worker = [pc |-> "idle", msg |-> NoMsg]
    /\ engineRuns = <<>>
    /\ outputWrites = <<>>
    /\ lost = 0
    /\ issued = {1}
    /\ issuedJobs = {}
    /\ now = 0
    /\ resp = Response("validate", 1, 200, FALSE, NULL)
    /\ waiter = NoWaiter
    /\ redis = "up"
    /\ cancelling = {}
    /\ reaper = NoReaper
    /\ modelCache = <<>>
    /\ modelTx = <<>>
    /\ uploading = [s \in Slots |-> NULL]

\* One job on that model, the clock and the daily reaper.
NextReaper ==
    \/ \E j \in QueueJobs, m \in CatalogIds, enqueue \in {"ok", "raises"} :
            create_job(j, m, {"input"}, enqueue)
    \/ \E j \in QueueJobs : create_job_commit(j)
    \/ \E msg \in broker : task_start(msg)
    \/ \E run \in {"ok", "fail", "soft_time_limit"} : task_body(run)
    \/ task_ack
    \/ \E j \in QueueJobs, revoke \in {"ok", "raises"} : cancel_job(j, revoke)
    \/ \E t \in Instants : Tick(t)
    \/ cleanup_old_jobs

SpecReaper == InitReady /\ [][NextReaper]_vars

\* C12: wherever the timestamps of a job are defined,
\* completed_at >= started_at >= created_at.
C12_TimestampOrder ==
    \A j \in DOMAIN jobs :
        /\ jobs[j].started_at # NULL
              => jobs[j].started_at[1] >= jobs[j].created_at[1]
        /\ jobs[j].completed_at # NULL
              => jobs[j].completed_at[1] >= jobs[j].created_at[1]
        /\ (jobs[j].completed_at # NULL /\ jobs[j].started_at # NULL)
              => jobs[j].completed_at[1] >= jobs[j].started_at[1]

\* C20: the reaper deletes only jobs whose status is terminal and whose
\* completed_at is older than now minus the retention period; a PENDING,
\* QUEUED or RUNNING job is never deleted by it.
C20_ReaperOnlyOldTerminal ==
    [][cleanup_old_jobs
          => \A j \in DOMAIN jobs :
                /\ j \notin DOMAIN jobs'
                      => /\ jobs[j].status \in {"completed", "failed", "cancelled"}
                         /\ jobs[j].completed_at # NULL
                         /\ jobs[j].completed_at[1] < now - job_retention_days
                /\ jobs[j].status \in {"pending", "queued", "running"}
                      => j \in DOMAIN jobs' /\ jobs'[j] = jobs[j]]_vars

\* C20 witness: the only job there was has outlived the retention period in
\* a terminal state and is gone, while nothing but the reaper deletes jobs
C20_Witness ==
    /\ now > job_retention_days
    /\ issuedJobs # {}
    /\ jobs = <<>> /\ jobTx = <<>>
    /\ DOMAIN models # {}

\* =================================================== halt specification
\* One model that can lose its artifact or be PATCHed to READY, and both
\* inference paths on it.
NextHalt ==
    \/ create_model_check(1, "m", "1.0.0", NULL)
    \/ \E m \in CatalogIds : create_model_insert(1, m)
    \/ \E m \in CatalogIds :
            upload_model_file(m, <<"model", ".", "onnx">>, "good", "ok")
    \/ \E m \in CatalogIds : validate_model_begin(m)
    \/ \E m \in CatalogIds : validate_model_finish(m)
    \/ \E m \in CatalogIds : ArtifactRemoved(storage_filename(m))
    \/ \E m \in CatalogIds : update_model(m, [status |-> READY])
    \/ \E m \in CatalogIds, skip_cache \in BOOLEAN :
            create_prediction(m, {"input"}, skip_cache, "ok")
    \/ \E j \in QueueJobs, m \in CatalogIds : create_job(j, m, {"input"}, "ok")
    \/ \E j \in QueueJobs : create_job_commit(j)
    \/ \E msg \in broker : task_start(msg)
    \/ task_body("ok")
    \/ task_ack

SpecHalt == Init /\ [][NextHalt]_vars

\* C15: an inference that finds a READY model without file_path, or with a
\* file_path whose file is gone, stops there and is not retried: the predict
\* call is answered 500 and stores nothing, the job is FAILED, the engine
\* has not run and no retry of the task is sent.
C15_InvariantViolationHalts ==
    [][/\ \A m \in DOMAIN models, skip_cache \in BOOLEAN :
            (/\ models[m].status = READY
             /\ \/ models[m].file_path = NULL
                \/ /\ models[m].file_path \notin DOMAIN blobs
                   /\ (skip_cache \/ <<m, {"input"}>> \notin DOMAIN predCache)
             /\ create_prediction(m, {"input"}, skip_cache, "ok"))
            => /\ resp'.code = 500
               /\ UNCHANGED <<predictions, predCache>>
       /\ (/\ worker.pc = "running"
           /\ worker.msg.job_id \in DOMAIN jobs
           /\ jobs[worker.msg.job_id].model_id \in DOMAIN models
           /\ LET row == models[jobs[worker.msg.job_id].model_id]
              IN  /\ row.status = READY
                  /\ (row.file_path = NULL \/ row.file_path \notin DOMAIN blobs)
           /\ task_body("ok"))
          => /\ jobs'[worker.msg.job_id].status = "failed"
             /\ broker' = broker
             /\ UNCHANGED <<engineRuns, outputWrites>>]_vars

\* =================================================== poll specification
\* One job on a READY model, its worker, and a client that asks for the
\* result, with and without waiting.
NextPoll ==
    \/ \E j \in QueueJobs, m \in CatalogIds, enqueue \in {"ok", "raises"} :
            create_job(j, m, {"input"}, enqueue)
    \/ \E j \in QueueJobs : create_job_commit(j)
    \/ \E msg \in broker : task_start(msg)
    \/ \E run \in {"ok", "fail", "soft_time_limit"} : task_body(run)
    \/ task_ack
    \/ \E j \in QueueJobs, revoke \in {"ok", "raises"} : cancel_job(j, revoke)
    \/ \E j \in QueueJobs : delete_job(j)
    \/ \E m \in CatalogIds : delete_model(m)
    \/ \E j \in QueueJobs, wait \in Waits : get_job_result(j, wait)
    \/ get_job_result_poll

SpecPoll == InitReady /\ [][NextPoll]_vars

\* C21: a get_result answered 200 carries the row's output exactly when the
\* job is COMPLETED, its error message and traceback exactly when it is
\* FAILED, and none of them when it is CANCELLED; 200 is only answered for a
\* terminal job.
C21_ResultByStatus ==
    (resp.op = "get_job_result" /\ resp.code = 200)
    => /\ resp.msg.status \in {"completed", "failed", "cancelled"}
       /\ resp.msg.result # NULL => resp.msg.status = "completed"
       /\ resp.msg.error_message # NULL => resp.msg.status = "failed"
       /\ resp.msg.error_traceback # NULL => resp.msg.status = "failed"
       /\ resp.msg.status = "completed"
            => resp.msg.result = Outputs({"input"})
       /\ resp.msg.status = "failed" => resp.msg.error_message # NULL

\* C21 witness: the result of a job that failed, was retried and was then
\* cancelled (the row still holds the error message) came back as 200
\* with neither output nor error
C21_Witness ==
    /\ resp.op = "get_job_result" /\ resp.code = 200
    /\ resp.msg.status = "cancelled"
    /\ resp.msg.result = NULL /\ resp.msg.error_message = NULL
    /\ resp.id \in DOMAIN jobs
    /\ jobs[resp.id].error_message # NULL

\* The asyncio event loop resumes a sleeping get_job_result when its
\* sleep is over.
SpecPollFair == SpecPoll /\ WF_vars(get_job_result_poll)

\* C22: a get_result that waits always returns; while the row exists, each
\* turn of its loop happens one poll interval after the last, the loop
\* ends exactly when the row read is terminal (answer 200) or the time slept
\* has reached wait (answer 202), and wait is at most 30 s.
C22_WaitAlwaysReturns ==
    /\ (waiter.pc = "polling") ~> (waiter.pc = "idle")
    /\ [][(get_job_result_poll /\ waiter.job_id \in DOMAIN jobs)
          => LET row == jobs[waiter.job_id]
                 slept == waiter.elapsed + POLL_INTERVAL_TENTHS
             IN  /\ waiter.wait <= MAX_WAIT_SECONDS * TenthsPerSecond
                 /\ waiter'.elapsed = slept
                 /\ row.status \in {"completed", "failed", "cancelled"}
                      => waiter'.pc = "idle" /\ resp'.code = 200
                 /\ (row.status \in {"pending", "queued", "running"}
                       /\ slept >= waiter.wait)
                      => waiter'.pc = "idle" /\ resp'.code = 202
                 /\ (row.status \in {"pending", "queued", "running"}
                       /\ slept < waiter.wait)
                      => waiter'.pc = "polling" /\ resp' = resp]_vars

\* C22 witness: a wait of one second ended after two polls with 202, the
\* job still processing
C22_Witness ==
    /\ waiter.pc = "idle" /\ waiter.wait = 10 /\ waiter.elapsed = 10
    /\ resp.op = "get_job_result" /\ resp.code = 202
    /\ waiter.job_id \in DOMAIN jobs
    /\ jobs[waiter.job_id].status \in {"pending", "queued", "running"}

\* ================================================== cache specification
\* One model, the synchronous predict path and the result cache, with a
\* store that is switched off, or that stops answering and comes back.
InitCache == \E r \in {"up", "disabled"} : InitWith(r)

NextCache ==
    \/ create_model_check(1, "m", "1.0.0", NULL)
    \/ \E m \in CatalogIds : create_model_insert(1, m)
    \/ \E m \in CatalogIds :
            upload_model_file(m, <<"model", ".", "onnx">>, "good", "ok")
    \/ \E m \in CatalogIds : validate_model_begin(m)
    \/ \E m \in CatalogIds : validate_model_finish(m)
    \/ \E m \in CatalogIds : update_model(m, [status |-> UPLOADED])
    \/ \E m \in CatalogIds : delete_model(m)
    \/ \E m \in CatalogIds, x \in Inputs, skip_cache \in BOOLEAN,
          run \in {"ok", "fail"} : create_prediction(m, x, skip_cache, run)
    \/ RedisDown
    \/ RedisUp

SpecCache == InitCache /\ [][NextCache]_vars

Invalidated(m) ==
    \/ delete_model(m) /\ resp'.code = 204
    \/ validate_model_finish(m) /\ resp'.code = 200
    \/ /\ upload_model_file(m, <<"model", ".", "onnx">>, "good", "ok")
       /\ resp'.code = 200

C25_CacheDownPredictSucceeds ==
    [][\A m \in DOMAIN models, x \in Inputs, skip_cache \in BOOLEAN :
          (/\ redis \in {"down", "disabled"}
           /\ models[m].status = READY
           /\ models[m].file_path \in DOMAIN blobs
           /\ blobs[models[m].file_path] = "good"
           /\ x = {"input"}
           /\ create_prediction(m, x, skip_cache, "ok"))
          => /\ ~get_prediction(m, x).hit
             /\ set_prediction(m, x, InferenceResult(x).outputs,
                    InferenceResult(x).inference_time_ms) = predCache
             /\ predCache' = predCache
             /\ resp'.code = 201 /\ resp'.engine
             /\ create_with_results(m, x, InferenceResult(x).outputs,
                    InferenceResult(x).inference_time_ms, FALSE) \in predictions']_vars

\* C25 witness: a predict was answered by the engine although the store,
\* which holds the result of an earlier identical call, does not answer
C25_Witness ==
    /\ redis = "down"
    /\ resp.op = "predict" /\ resp.code = 201 /\ resp.engine
    /\ <<resp.id, {"input"}>> \in DOMAIN predCache

\* C26: a predict on a READY model whose artifact file has been removed
\* from disk is answered 500 with a message that names the invariant
\* "file_path points to a valid ONNX file" and the observed state "file no
\* longer exists".
C26_MissingArtifactNamed ==
    [][\A m \in DOMAIN models, x \in Inputs, skip_cache \in BOOLEAN,
         run \in {"ok", "fail"} :
          (/\ models[m].status = READY
           /\ models[m].file_path # NULL
           /\ models[m].file_path \notin DOMAIN blobs
           /\ create_prediction(m, x, skip_cache, run))
          => /\ resp'.code = 500
             /\ resp'.msg = <<"POST-COMMITMENT INVARIANT VIOLATED",
                              "file_path points to a valid ONNX file",
                              "file no longer exists">>]_vars

\* C30: when DELETE /models/{id} has answered 204, no prediction row, job
\* row, cached inference session or cached result of that id is left.
C30_DeleteLeavesNothing ==
    [][\A m \in DOMAIN models :
          (delete_model(m) /\ resp'.code = 204)
          => /\ \A p \in predictions' : p.model_id # m
             /\ \A j \in DOMAIN jobs' : jobs'[j].model_id # m
             /\ models[m].file_path # NULL => models[m].file_path \notin sessions'
             /\ \A k \in DOMAIN predCache' : k[1] # m]_vars

\* ================================================ version specification
\* The rows of one name, their versions chosen by the clients, some of
\* them taken to READY, and the two by-name queries.
NextVersions ==
    \/ \E v \in VersionStrings : create_model_check(1, "m", v, NULL)
    \/ \E m \in ModelIds : create_model_insert(1, m)
    \/ \E m \in ModelIds :
            upload_model_file(m, <<"model", ".", "onnx">>, "good", "ok")
    \/ \E m \in ModelIds : validate_model_begin(m)
    \/ \E m \in ModelIds : validate_model_finish(m)
    \/ \E n \in Names : list_model_versions(n)
    \/ \E n \in Names, ready_only \in BOOLEAN :
            get_latest_model_version(n, ready_only)

SpecVersions == Init /\ [][NextVersions]_vars

\* whether a version string is MAJOR.MINOR.PATCH[-PRERELEASE]
is_semver(v) == semver_match(v) # NULL

\* C27: the versions listed for a name come newest first: of two listed
\* semvers the earlier one is not older under the semver comparison, in
\* which a stable version is newer than a pre-release of the same numbers.
C27_VersionsNewestFirst ==
    (resp.op = "list_model_versions" /\ resp.code = 200)
    => \A i, k \in DOMAIN resp.msg :
          (i < k /\ is_semver(resp.msg[i]) /\ is_semver(resp.msg[k]))
          => compare_versions(resp.msg[i], resp.msg[k]) = 1

\* C28: in the version ordering a string that is not a semver is below
\* every semver, both for compare_versions and in a listing, and strings
\* that are not semvers are listed in descending alphabetical order.
C28_NonSemverBelow ==
    /\ \A m1, m2 \in DOMAIN models :
          (~is_semver(models[m1].version) /\ is_semver(models[m2].version))
          => compare_versions(models[m1].version, models[m2].version) = -1
    /\ (resp.op = "list_model_versions" /\ resp.code = 200)
       => \A i, k \in DOMAIN resp.msg :
             i < k =>
                /\ ~(~is_semver(resp.msg[i]) /\ is_semver(resp.msg[k]))
                /\ (~is_semver(resp.msg[i]) /\ ~is_semver(resp.msg[k]))
                     => str_lt(resp.msg[k], resp.msg[i])

\* C29: latest_by_name answers with a row of that name (a READY one when
\* ready_only is set) that no other such row exceeds under the semver
\* comparison, and with 404 when there is no such row.
C29_LatestIsHighest ==
    [][\A n \in Names, ready_only \in BOOLEAN :
          get_latest_model_version(n, ready_only)
          => LET rows == {m \in DOMAIN models :
                            /\ models[m].name = n
                            /\ ready_only => models[m].status = READY}
             IN  IF rows = {} THEN resp'.code = 404
                 ELSE /\ resp'.code = 200
                      /\ resp'.id \in rows
                      /\ \A o \in rows :
                            compare_versions(models[resp'.id].version,
                                             models[o].version) >= 0]_vars

\* ================================================== store specification
\* Models are created and given artifacts, artifacts disappear, and the
\* store is asked for paths of every shape.
NextStore ==
    \/ \E v \in Versions : create_model_check(1, "m", v, NULL)
    \/ \E m \in ModelIds : create_model_insert(1, m)
    \/ \E m \in ModelIds :
            upload_model_file(m, <<"model", ".", "onnx">>, "good", "ok")
    \/ \E filename \in DOMAIN blobs : ArtifactRemoved(filename)
    \/ \E path \in PathStrings : get_path(path)
    \/ \E path \in PathStrings : exists(path)

SpecStore == Init /\ [][NextStore]_vars

\* whether an absolute path is the base directory or below it
inside_base(p) ==
    Len(p) >= Len(base_path) /\ SubSeq(p, 1, Len(base_path)) = base_path

\* C31: for every path string, with directory components or ".." or not,
\* the store's resolve raises or returns a path inside the base directory,
\* and so does every get_path that returns.
C31_ResolveStaysInBase ==
    /\ \A path \in PathStrings :
          resolve_path(path).raised = NULL
          => inside_base(resolve_path(path).value)
    /\ (resp.op = "get_path" /\ resp.msg.raised = NULL)
       => inside_base(resp.msg.value)

\* C31 witness: get_path was given "../1.onnx" and returned the path of the
\* artifact of model 1, and ".." alone is refused
C31_Witness ==
    /\ resp.op = "get_path"
    /\ resp.id = <<".", ".", "/", "1", ".", "o", "n", "n", "x">>
    /\ resp.msg = Returned(saved_at(storage_filename(1)))
    /\ resolve_path(<<".", ".">>) = Raised("StorageError")

\* ================================================= engine specification
\* Models are created, given artifacts and committed, artifacts disappear,
\* and the engine adapter of the API process is called with the stored path
\* of a model and inputs of every shape.
NextEngine ==
    \/ \E v \in Versions : create_model_check(1, "m", v, NULL)
    \/ \E m \in ModelIds : create_model_insert(1, m)
    \/ \E m \in ModelIds :
            upload_model_file(m, <<"model", ".", "onnx">>, "good", "ok")
    \/ \E m \in ModelIds : validate_model_begin(m)
    \/ \E m \in ModelIds : validate_model_finish(m)
    \/ \E filename \in DOMAIN blobs : ArtifactRemoved(filename)
    \/ \E m \in ModelIds, input_data \in EngineInputs,
          run \in {"ok", "unconvertible", "fail"} :
            run_inference(storage_filename(m), input_data, run)

SpecEngine == Init /\ [][NextEngine]_vars

\* the stored paths of the committed models whose artifact is in place
CommittedPaths ==
    {models[m].file_path : m \in {o \in DOMAIN models :
        /\ is_committed(models[o])
        /\ models[o].file_path # NULL
        /\ models[o].file_path \in DOMAIN blobs}}

\* C32: on a committed model, run raises the InputError for missing names
\* exactly when a declared input name is not among the names supplied, and
\* names that are not declared change nothing: the run returns what it
\* returns for the declared names alone.
C32_MissingInputsRaise ==
    [][\A path \in CommittedPaths, input_data \in EngineInputs,
         run \in {"ok", "unconvertible", "fail"} :
          run_inference(path, input_data, run)
          => /\ (resp'.msg = RaisedWith("ONNXInputError",
                                        <<"Missing required inputs">>))
                <=> ~(input_names(blobs[path]) \subseteq input_data)
             /\ (input_names(blobs[path]) \subseteq input_data /\ run = "ok")
                => resp'.msg = Returned(InferenceResult(
                                    input_data \cap input_names(blobs[path])))]_vars

\* C32 witness: a run on a committed model with its declared name and one
\* more has returned
C32_Witness ==
    /\ resp.op = "run_inference"
    /\ resp.id \in CommittedPaths
    /\ resp.msg = Returned(InferenceResult({"input", "extra"}))

\* C37: when the session cache holds the key of a path whose file is gone,
\* a request for that session evicts that entry, leaves every other entry
\* in place and raises PostCommitmentInvariantViolation; a session cached
\* for another model whose file is in place keeps answering.
C37_EvictOnlyMissing ==
    [][\A m \in ModelIds, input_data \in EngineInputs,
         run \in {"ok", "unconvertible", "fail"} :
          LET path == storage_filename(m)
          IN  (run_inference(path, input_data, run) /\ path \in sessions)
              => IF path \notin DOMAIN blobs
                 THEN /\ sessions' = sessions \ {path}
                      /\ resp'.msg = RaisedWith(
                            "PostCommitmentInvariantViolation", NULL)
                 ELSE /\ sessions' = sessions
                      /\ (input_names("good") \subseteq input_data /\ run = "ok")
                         => resp'.msg.raised = NULL]_vars

\* C37 witness: the violation was raised for one path while the session of
\* another model is still cached
C37_Witness ==
    /\ resp.op = "run_inference"
    /\ resp.msg = RaisedWith("PostCommitmentInvariantViolation", NULL)
    /\ resp.id \notin sessions
    /\ \E other \in sessions : other # resp.id

\* C33: when an upload fails after storage.save has written the blob, be it
\* in the row update or in the commit of the transaction, the blob is
\* deleted: the store holds no blob for the model after the failed request.
C33_FailedUploadLeavesNoBlob ==
    [][\A m \in DOMAIN models, f \in Filenames, c \in Contents,
         db \in {"flush", "commit"} :
          (upload_model_file(m, f, c, db) /\ resp'.code = 500)
          => storage_filename(m) \notin DOMAIN blobs']_vars

\* ================================================== race specification
\* One job on a READY model: its worker, and cancel requests whose check
\* and write other transactions can fall between.
NextRace ==
    \/ \E j \in QueueJobs, m \in CatalogIds, enqueue \in {"ok", "raises"} :
            create_job(j, m, {"input"}, enqueue)
    \/ \E j \in QueueJobs : create_job_commit(j)
    \/ \E msg \in broker : task_start(msg)
    \/ \E run \in {"ok", "fail"} : task_body(run)
    \/ task_ack
    \/ \E j \in QueueJobs, revoke \in {"ok", "raises"} : cancel_job_check(j, revoke)
    \/ \E j \in QueueJobs : cancel_job_write(j)
    \/ \E j \in QueueJobs : delete_job(j)

SpecRace == InitReady /\ [][NextRace]_vars

\* the transitions of a job the guards let through: enqueue, start,
\* finish and cancel
JobTransitions ==
    {<<"pending", "queued">>, <<"pending", "running">>, <<"queued", "running">>,
     <<"running", "completed">>, <<"running", "failed">>,
     <<"pending", "cancelled">>, <<"queued", "cancelled">>,
     <<"running", "cancelled">>}

\* C34: the transitions of one job are serialized: whatever a cancel and a
\* worker's update do concurrently, every write of a status lands on a row
\* state its guard accepts, so a status only ever changes along a guarded
\* transition, and a cancel writes CANCELLED only over PENDING, QUEUED or
\* RUNNING.
C34_TransitionsSerialized ==
    [][\A j \in DOMAIN jobs \cap DOMAIN jobs' :
          /\ jobs'[j].status # jobs[j].status
             => <<jobs[j].status, jobs'[j].status>> \in JobTransitions
          /\ cancel_job_write(j) => can_cancel(jobs[j])]_vars

\* ============================================= completion specification
\* One job on a READY model and its worker, no client but the one that
\* creates the job.  The request's commit, the delivery of a message in the
\* queue and the steps of a task that has started do happen.
NextCompletion ==
    \/ \E j \in QueueJobs, m \in CatalogIds, x \in Inputs,
          enqueue \in {"ok", "raises"} : create_job(j, m, x, enqueue)
    \/ \E j \in QueueJobs : create_job_commit(j)
    \/ \E msg \in broker : task_start(msg)
    \/ \E run \in {"ok", "fail", "soft_time_limit"} : task_body(run)
    \/ task_ack
    \/ WorkerLost

SpecCompletion ==
    /\ InitReady /\ [][NextCompletion]_vars
    /\ WF_vars(\E j \in QueueJobs : create_job_commit(j))
    /\ WF_vars(\E msg \in broker : task_start(msg))
    /\ WF_vars(\E run \in {"ok", "fail", "soft_time_limit"} : task_body(run))
    /\ WF_vars(task_ack)

\* C35: every job row that is created reaches a terminal state without a
\* client doing anything more, whether its enqueue failed or its task was
\* delivered before the row was committed.
C35_EveryJobTerminates ==
    \A j \in QueueJobs :
        (j \in DOMAIN jobs)
        ~> (j \in DOMAIN jobs /\ jobs[j].status \in TerminalStatuses)

\* ================================================== retry specification
\* One job on a model that is READY at first, and a worker whose attempts
\* may fail for reasons that are not the engine's: the model is archived
\* or deleted under the job, or the soft time limit is hit.
NextRetry ==
    \/ \E j \in QueueJobs, m \in CatalogIds, x \in Inputs :
            create_job(j, m, x, "ok")
    \/ \E j \in QueueJobs : create_job_commit(j)
    \/ \E msg \in broker : task_start(msg)
    \/ \E run \in {"ok", "fail", "soft_time_limit"} : task_body(run)
    \/ task_ack
    \/ \E m \in CatalogIds : update_model(m, [status |-> ARCHIVED])
    \/ \E m \in CatalogIds : delete_model(m)

SpecRetry == InitReady /\ [][NextRetry]_vars

\* the exceptions of a task that are not the engine's
NonEngine == {"ValueError", "SoftTimeLimitExceeded"}

\* C36: the attempts of a job are numbered by the retries of their
\* messages, 0 for the first; no message ever carries more than
\* job_max_retries, a failed attempt sends at most the one message of the
\* next number, and the attempt numbered job_max_retries sends none.
C36_RetriesBounded ==
    [][/\ \A msg \in broker' : msg.retries <= job_max_retries
       /\ worker'.msg.retries <= job_max_retries
       /\ \A run \in {"ok", "fail", "soft_time_limit"} :
             (/\ task_body(run)
              /\ worker.msg.job_id \in DOMAIN jobs
              /\ task_raises(jobs[worker.msg.job_id], run) \in NonEngine)
             => IF worker.msg.retries < job_max_retries
                THEN broker' = broker \cup
                        {Msg(worker.msg.task_id, worker.msg.job_id,
                             worker.msg.retries + 1)}
                ELSE broker' = broker]_vars

\* C36 witness: the attempt numbered job_max_retries has failed as the
\* ones before it, and no message is left
C36_Witness ==
    /\ worker.pc = "done"
    /\ worker.msg.retries = job_max_retries
    /\ worker.msg.job_id \in DOMAIN jobs
    /\ jobs[worker.msg.job_id].retries = job_max_retries + 1
    /\ broker = {}

\* ================================================== sweep specification
\* One job on a READY model, its worker, the clients that cancel and
\* delete, the clock, and a reaper run seen statement by statement.
NextSweep ==
    \/ \E j \in QueueJobs, m \in CatalogIds, enqueue \in {"ok", "raises"} :
            create_job(j, m, {"input"}, enqueue)
    \/ \E j \in QueueJobs : create_job_commit(j)
    \/ \E msg \in broker : task_start(msg)
    \/ \E run \in {"ok", "fail"} : task_body(run)
    \/ task_ack
    \/ \E j \in QueueJobs, revoke \in {"ok", "raises"} : cancel_job(j, revoke)
    \/ \E j \in QueueJobs : delete_job(j)
    \/ \E t \in Instants : Tick(t)
    \/ cleanup_old_jobs_count
    \/ cleanup_old_jobs_delete

SpecSweep == InitReady /\ [][NextSweep]_vars

\* C38: the row count a reaper run reports is the number of job rows that
\* run deleted, whatever becomes terminal, ages or is deleted through the
\* API while it runs.
C38_ReportedCountIsDeleted ==
    [][cleanup_old_jobs_delete
          => resp'.msg.deleted_count
                = Cardinality(DOMAIN jobs \ DOMAIN jobs')]_vars

\* ================================================== stale specification
\* One model, PATCH requests seen in their two steps, deletes, and GETs
\* that go through the model cache.
NextStale ==
    \/ \E v \in Versions : create_model_check(1, "m", v, NULL)
    \/ \E m \in CatalogIds : create_model_insert(1, m)
    \/ \E m \in CatalogIds, model_in \in Opt("model_metadata", {<<"user">>})
                                   \cup Opt("status", {ARCHIVED, READY}) :
            update_model_flush(m, model_in)
    \/ \E m \in CatalogIds : update_model_commit(m)
    \/ \E m \in CatalogIds : delete_model(m)
    \/ \E m \in CatalogIds : get_model(m)

SpecStale == Init /\ [][NextStale]_vars

\* C39: once every change of a model has completed, a GET /models/{id}
\* answers with the committed row, or with 404 when the row is deleted,
\* whatever GETs ran while the changes were under way.
C39_GetReflectsCommitted ==
    [][\A m \in CatalogIds :
          (get_model(m) /\ modelTx = <<>>)
          => IF m \in DOMAIN models
             THEN /\ resp'.code = 200
                  /\ resp'.msg = model_to_cache_dict(m, models[m])
             ELSE resp'.code = 404]_vars

\* ================================================= upload specification
\* Models that are created and deleted, and upload requests, several at a
\* time, seen in their two steps.
NextUpload ==
    \/ \E v \in Versions : create_model_check(1, "m", v, NULL)
    \/ \E m \in ModelIds : create_model_insert(1, m)
    \/ \E s \in Slots, m \in ModelIds, c \in Contents,
          f \in {<<"model", ".", "onnx">>, <<"model", ".", "txt">>} :
            upload_save(s, m, f, c)
    \/ \E s \in Slots : upload_commit(s)
    \/ \E m \in ModelIds : delete_model(m)

SpecUpload == Init /\ [][NextUpload]_vars

\* C40: whatever the interleaving of the uploads to a model, once they have
\* completed the file_hash of the row is the SHA-256 of the blob stored at
\* the row's file_path.
C40_HashMatchesBlob ==
    (\A s \in Slots : uploading[s] = NULL)
    => \A m \in DOMAIN models :
          (models[m].file_path # NULL /\ models[m].file_path \in DOMAIN blobs)
          => models[m].file_hash = Sha256(blobs[models[m].file_path])

====
